---- MODULE Spec2Model ----
(***************************************************************************)
(* A model of dot-do/pyx: the text-level transformation passes             *)
(* (core/transform), the regex safety analyzer (core/safety) and the       *)
(* indentation tracking of the Python tokenizer (core/ast/parser.ts).      *)
(*                                                                         *)
(* Text is a sequence of one-character strings, so that the regular        *)
(* expressions, split/join/trim and the indentation scan of the source     *)
(* are computed character by character as the code computes them.          *)
(***************************************************************************)
EXTENDS Integers, Sequences, FiniteSets, TLC

VARIABLES
    src,          \* the source text handed to the first function called
    calls,        \* the names of the functions applied so far, in order
    texts,        \* texts[1] = src, texts[k + 1] = the result of calls[k]
    report,       \* the SafetyReport of analyze(src), or NoReport
    tkSource,     \* Tokenizer.source
    tkPos,        \* Tokenizer.pos (0-based, as in the code)
    indentStack,  \* Tokenizer.indentStack
    pendingTokens,\* Tokenizer.pendingTokens
    atLineStart,  \* Tokenizer.atLineStart
    tkPhase,      \* "lex": tokens are being pulled; "done": ENDMARKER was returned; "error": a SyntaxError was thrown
    emitted,      \* the tokens returned by Tokenizer.next() so far
    lastIndent,   \* what the last handleIndentation call saw: the line's width and the stack before and after
    parsed,       \* the outcome of Parser.parse(): its status and the Module node
    yielded,      \* the nodes walk(root) yielded, in order
    transformed,  \* the outcome of an ASTTransformer's visit(root)
    packages,     \* VirtualEnv._packages: the installed packages, in insertion order
    venvLast,     \* the last VirtualEnv call: its arguments, its outcome and _packages before it
    strictPyodideCompatibility, \* VirtualEnv._strictPyodideCompatibility
    exported,     \* what VirtualEnv.export returned, with the packages it was taken from
    imported,     \* the outcome of VirtualEnv.import on a fresh environment
    depRun,       \* a run of _installDependencies over a dependency graph: its call stack, visited set and packages
    mock,         \* MockBackend: its globals and packages, and the snapshot last restored
    taken,        \* the snapshots createSnapshot returned, each with the state it was taken from
    storage,      \* the DurableObjectStorage: session states, histories and snapshots by key
    manager,      \* SessionManager: this.state, this.history and options.maxHistory
    requests,     \* the HTTP requests in flight: where each stands and what it holds
    ran,          \* every execution the backend ran, in order, with the session that was current
    now           \* Date.now(), in ticks

xformVars == <<src, calls, texts, report>>
tokVars == <<tkSource, tkPos, indentStack, pendingTokens, atLineStart, tkPhase, emitted, lastIndent>>
astVars == <<parsed, yielded, transformed>>
venvVars == <<packages, venvLast, strictPyodideCompatibility, exported, imported, depRun>>
serviceVars == <<mock, taken, storage, manager, requests, ran, now>>
vars == <<src, calls, texts, report, tkSource, tkPos, indentStack, pendingTokens,
          atLineStart, tkPhase, emitted, lastIndent, parsed, yielded, transformed,
          packages, venvLast, strictPyodideCompatibility, exported, imported, depRun,
          mock, taken, storage, manager, requests, ran, now>>

(***************************************************************************)
(* Characters and JavaScript string primitives                             *)
(***************************************************************************)

NL == "\n"

\* JavaScript's \s (and what String.prototype.trim strips), within ASCII.
WS == {" ", "\t", "\n", "\r", "\f"}

Digits == {"0", "1", "2", "3", "4", "5", "6", "7", "8", "9"}

Lower == {"a", "b", "c", "d", "e", "f", "g", "h", "i", "j", "k", "l", "m",
          "n", "o", "p", "q", "r", "s", "t", "u", "v", "w", "x", "y", "z"}

Upper == {"A", "B", "C", "D", "E", "F", "G", "H", "I", "J", "K", "L", "M",
          "N", "O", "P", "Q", "R", "S", "T", "U", "V", "W", "X", "Y", "Z"}

\* JavaScript's \w.
WordChars == Lower \cup Upper \cup Digits \cup {"_"}

\* What JavaScript's . does not match.
LineTerminators == {"\n", "\r"}

\* s.substring(i) for a 1-based i.
Drop(s, i) == SubSeq(s, i, Len(s))

\* s.startsWith(p)
StartsWith(s, p) == Len(p) <= Len(s) /\ SubSeq(s, 1, Len(p)) = p

\* p occurs in s at the 1-based index i
OccursAt(s, p, i) == i >= 1 /\ i + Len(p) - 1 <= Len(s) /\ SubSeq(s, i, i + Len(p) - 1) = p

\* s.includes(p)
Includes(s, p) == \E i \in 1..(Len(s) + 1) : OccursAt(s, p, i)

\* The least and the greatest element of a non-empty set of integers.
Min(S) == CHOOSE x \in S : \A y \in S : x <= y
Max(S) == CHOOSE x \in S : \A y \in S : y <= x

\* s.split(sep) for a one-character separator: the empty text splits into one empty piece.
Split(s, sep) ==
    LET seps == {i \in 1..Len(s) : s[i] = sep}
        n == Cardinality(seps)
        at(k) == IF k = 0 THEN 0
                 ELSE IF k = n + 1 THEN Len(s) + 1
                 ELSE CHOOSE p \in seps : Cardinality({q \in seps : q < p}) = k - 1
    IN  [k \in 1..(n + 1) |-> SubSeq(s, at(k - 1) + 1, at(k) - 1)]

RECURSIVE JoinFrom(_, _, _)
JoinFrom(pieces, sep, i) ==
    IF i > Len(pieces) THEN <<>>
    ELSE IF i = Len(pieces) THEN pieces[i]
    ELSE pieces[i] \o <<sep>> \o JoinFrom(pieces, sep, i + 1)

\* pieces.join(sep)
Join(pieces, sep) == JoinFrom(pieces, sep, 1)

\* s.trim()
Trim(s) ==
    LET solid == {i \in 1..Len(s) : s[i] \notin WS}
    IN  IF solid = {} THEN <<>> ELSE SubSeq(s, Min(solid), Max(solid))

(***************************************************************************)
(* Regular expressions, matched as JavaScript's backtracking matcher does. *)
(* Every pattern of the source is a plain sequence of items (no            *)
(* alternation, no quantifier over more than one character class), so a    *)
(* pattern is a sequence of:                                               *)
(*   chr   one character in cs (neg: not in cs)                            *)
(*   rep   a character class repeated at least min times, greedy or lazy   *)
(*   open, close   the parentheses of capture group n                      *)
(*   wb bol eol nlb nla   \b  ^  $  (?<![cs])  (?![cs])                    *)
(* ReRun tries the items from k on; a quantifier takes the first length,   *)
(* in the matcher's order of preference, for which the rest matches.       *)
(***************************************************************************)

ReSet(cs) == [t |-> "chr", neg |-> FALSE, cs |-> cs]
ReNot(cs) == [t |-> "chr", neg |-> TRUE, cs |-> cs]
ReCh(c) == ReSet({c})
ReLit(p) == [i \in 1..Len(p) |-> ReCh(p[i])]
ReStar(c) == [t |-> "rep", neg |-> c.neg, cs |-> c.cs, min |-> 0, greedy |-> TRUE]
RePlus(c) == [t |-> "rep", neg |-> c.neg, cs |-> c.cs, min |-> 1, greedy |-> TRUE]
RePlusLazy(c) == [t |-> "rep", neg |-> c.neg, cs |-> c.cs, min |-> 1, greedy |-> FALSE]
ReOpen(n) == [t |-> "open", n |-> n]
ReClose(n) == [t |-> "close", n |-> n]
ReWB == [t |-> "wb"]
ReBOL == [t |-> "bol"]
ReEOL == [t |-> "eol"]
ReNotBehind(cs) == [t |-> "nlb", cs |-> cs]
ReNotAhead(cs) == [t |-> "nla", cs |-> cs]
ReSpace == ReSet(WS)
ReNonSpace == ReNot(WS)
ReDot == ReNot(LineTerminators)

NoCaps == <<<<0, 0>>, <<0, 0>>>>

\* A failed match attempt.
ReFail == [pos |-> 0, caps |-> NoCaps]

IsWordAt(s, k) == k >= 1 /\ k <= Len(s) /\ s[k] \in WordChars

AtWordBoundary(s, p) == IsWordAt(s, p - 1) # IsWordAt(s, p)

InClass(it, c) == IF it.neg THEN c \notin it.cs ELSE c \in it.cs

\* Where the run of characters of it's class that starts at pos ends (exclusive).
RunEnd(it, s, pos) ==
    LET stops == {i \in pos..Len(s) : ~InClass(it, s[i])}
    IN  IF stops = {} THEN Len(s) + 1 ELSE Min(stops)

RECURSIVE ReRun(_, _, _, _)
ReRun(rs, k, s, st) ==
    IF k > Len(rs) THEN st
    ELSE LET it == rs[k]
             rest(st2) == ReRun(rs, k + 1, s, st2)
         IN  CASE it.t = "chr" ->
                     IF st.pos <= Len(s) /\ InClass(it, s[st.pos])
                     THEN rest([st EXCEPT !.pos = @ + 1]) ELSE ReFail
               [] it.t = "rep" ->
                     LET e == RunEnd(it, s, st.pos)
                         good == {p \in (st.pos + it.min)..e :
                                     rest([st EXCEPT !.pos = p]).pos # 0}
                         pick == IF it.greedy THEN e - Min({e - p : p \in good})
                                 ELSE Min(good)
                     IN  IF good = {} THEN ReFail ELSE rest([st EXCEPT !.pos = pick])
               [] it.t = "open" -> rest([st EXCEPT !.caps[it.n][1] = st.pos])
               [] it.t = "close" -> rest([st EXCEPT !.caps[it.n][2] = st.pos])
               [] it.t = "wb" -> IF AtWordBoundary(s, st.pos) THEN rest(st) ELSE ReFail
               [] it.t = "bol" -> IF st.pos = 1 THEN rest(st) ELSE ReFail
               [] it.t = "eol" -> IF st.pos = Len(s) + 1 THEN rest(st) ELSE ReFail
               [] it.t = "nlb" ->
                     IF st.pos > 1 /\ s[st.pos - 1] \in it.cs THEN ReFail ELSE rest(st)
               [] it.t = "nla" ->
                     IF st.pos <= Len(s) /\ s[st.pos] \in it.cs THEN ReFail ELSE rest(st)

\* The result of one match attempt; index = 0 stands for null.
NoMatch == [index |-> 0, end |-> 0, caps |-> NoCaps]

\* The match of pattern r on s that starts at the 1-based index start, if any.
ReExecAt(r, s, start) ==
    LET res == ReRun(r, 1, s, [pos |-> start, caps |-> NoCaps])
    IN  IF res.pos = 0 THEN NoMatch
        ELSE [index |-> start, end |-> res.pos, caps |-> res.caps]

\* The leftmost match starting at or after the 1-based index from.
ReSearch(r, s, from) ==
    LET starts == {i \in from..(Len(s) + 1) : ReExecAt(r, s, i).index # 0}
    IN  IF starts = {} THEN NoMatch ELSE ReExecAt(r, s, Min(starts))

\* regex.test(s), s.match(regex) !== null
ReTest(r, s) == \E i \in 1..(Len(s) + 1) : ReExecAt(r, s, i).index # 0

RECURSIVE ReMatchAllFrom(_, _, _)
ReMatchAllFrom(r, s, from) ==
    LET m == ReSearch(r, s, from)
    IN  IF m.index = 0 THEN <<>>
        ELSE <<m>> \o ReMatchAllFrom(r, s, IF m.end = m.index THEN m.end + 1 ELSE m.end)

\* s.matchAll(new RegExp(pattern, 'g'))
ReMatchAll(r, s) == ReMatchAllFrom(r, s, 1)

\* match[n] of a successful match m on s
Capture(s, m, n) == SubSeq(s, m.caps[n][1], m.caps[n][2] - 1)

(***************************************************************************)
(* core/transform: async.ts                                                *)
(***************************************************************************)

Indent4 == <<" "," "," "," ">>

\* An indentation that puts the four spaces before every line, the empty ones too.
IndentEveryLine(lines) == [i \in 1..Len(lines) |-> Indent4 \o lines[i]]

\* lines.map((line) => (line ? '    ' + line : line))

IndentLines(lines) ==
    [i \in 1..Len(lines) |-> IF lines[i] # <<>> THEN Indent4 \o lines[i] ELSE lines[i]]

AsyncHeader == <<"a","s","y","n","c"," ","d","e","f"," ","_","_","p","y","x","_","m","a","i","n","_","_","(",")",":">>

\* wrapAsync without the fallback `|| '    pass'`
wrapAsyncWithoutPass(code) ==
    AsyncHeader \o <<NL>> \o Join(IndentLines(Split(code, NL)), NL) \o <<NL>>

wrapAsync(code) ==
    LET lines == Split(code, NL)
        indentedLines == IndentLines(lines)
        joined == Join(indentedLines, NL)
        indentedCode == IF joined # <<>> THEN joined ELSE <<" "," "," "," ","p","a","s","s">>
    IN  AsyncHeader \o <<NL>> \o indentedCode \o <<NL>>

\* /^(\s*)/
LeadingSpaceRe == <<ReBOL, ReOpen(1), ReStar(ReSpace), ReClose(1)>>

\* line.match(/^(\s*)/)?.[1]
LeadingSpace(line) == Capture(line, ReSearch(LeadingSpaceRe, line, 1), 1)

\* /\bawait\s+/
AwaitRe == <<ReWB>> \o ReLit(<<"a","w","a","i","t">>) \o <<RePlus(ReSpace)>>

AsyncDefPrefix == <<"a","s","y","n","c"," ","d","e","f"," ">>

RECURSIVE hasTopLevelAwaitFrom(_, _, _, _)
\* The loop of hasTopLevelAwait from line i on, with the loop's two variables.
hasTopLevelAwaitFrom(lines, i, insideAsyncDef, asyncDefIndent) ==
    IF i > Len(lines) THEN FALSE
    ELSE LET line == lines[i]
             trimmed == Trim(line)
             currentIndent == Len(LeadingSpace(line))
             inside == IF insideAsyncDef /\ currentIndent <= asyncDefIndent
                          /\ ~StartsWith(trimmed, AsyncDefPrefix)
                       THEN FALSE ELSE insideAsyncDef
         IN  IF trimmed = <<>> \/ StartsWith(trimmed, <<"#">>)
             THEN hasTopLevelAwaitFrom(lines, i + 1, insideAsyncDef, asyncDefIndent)
             ELSE IF StartsWith(trimmed, AsyncDefPrefix)
             THEN hasTopLevelAwaitFrom(lines, i + 1, TRUE, currentIndent)
             ELSE IF ~inside /\ ReTest(AwaitRe, trimmed) THEN TRUE
             ELSE hasTopLevelAwaitFrom(lines, i + 1, inside, asyncDefIndent)

hasTopLevelAwait(code) == hasTopLevelAwaitFrom(Split(code, NL), 1, FALSE, 0)

wrapTopLevelAwait(code) == IF ~hasTopLevelAwait(code) THEN code ELSE wrapAsync(code)

(***************************************************************************)
(* core/transform: imports.ts                                              *)
(***************************************************************************)

STDLIB_MODULES == {
    <<"a","b","c">>, <<"a","i","f","c">>, <<"a","r","g","p","a","r","s","e">>, <<"a","r","r","a","y">>,
    <<"a","s","t">>, <<"a","s","y","n","c","h","a","t">>, <<"a","s","y","n","c","i","o">>, <<"a","s","y","n","c","o","r","e">>,
    <<"a","t","e","x","i","t">>, <<"a","u","d","i","o","o","p">>, <<"b","a","s","e","6","4">>, <<"b","d","b">>,
    <<"b","i","n","a","s","c","i","i">>, <<"b","i","n","h","e","x">>, <<"b","i","s","e","c","t">>, <<"b","u","i","l","t","i","n","s">>,
    <<"b","z","2">>, <<"c","a","l","e","n","d","a","r">>, <<"c","g","i">>, <<"c","g","i","t","b">>,
    <<"c","h","u","n","k">>, <<"c","m","a","t","h">>, <<"c","m","d">>, <<"c","o","d","e">>,
    <<"c","o","d","e","c","s">>, <<"c","o","d","e","o","p">>, <<"c","o","l","l","e","c","t","i","o","n","s">>, <<"c","o","l","o","r","s","y","s">>,
    <<"c","o","m","p","i","l","e","a","l","l">>, <<"c","o","n","c","u","r","r","e","n","t">>, <<"c","o","n","f","i","g","p","a","r","s","e","r">>, <<"c","o","n","t","e","x","t","l","i","b">>,
    <<"c","o","n","t","e","x","t","v","a","r","s">>, <<"c","o","p","y">>, <<"c","o","p","y","r","e","g">>, <<"c","P","r","o","f","i","l","e">>,
    <<"c","r","y","p","t">>, <<"c","s","v">>, <<"c","t","y","p","e","s">>, <<"c","u","r","s","e","s">>,
    <<"d","a","t","a","c","l","a","s","s","e","s">>, <<"d","a","t","e","t","i","m","e">>, <<"d","b","m">>, <<"d","e","c","i","m","a","l">>,
    <<"d","i","f","f","l","i","b">>, <<"d","i","s">>, <<"d","i","s","t","u","t","i","l","s">>, <<"d","o","c","t","e","s","t">>,
    <<"e","m","a","i","l">>, <<"e","n","c","o","d","i","n","g","s">>, <<"e","n","u","m">>, <<"e","r","r","n","o">>,
    <<"f","a","u","l","t","h","a","n","d","l","e","r">>, <<"f","c","n","t","l">>, <<"f","i","l","e","c","m","p">>, <<"f","i","l","e","i","n","p","u","t">>,
    <<"f","n","m","a","t","c","h">>, <<"f","r","a","c","t","i","o","n","s">>, <<"f","t","p","l","i","b">>, <<"f","u","n","c","t","o","o","l","s">>,
    <<"g","c">>, <<"g","e","t","o","p","t">>, <<"g","e","t","p","a","s","s">>, <<"g","e","t","t","e","x","t">>,
    <<"g","l","o","b">>, <<"g","r","a","p","h","l","i","b">>, <<"g","r","p">>, <<"g","z","i","p">>,
    <<"h","a","s","h","l","i","b">>, <<"h","e","a","p","q">>, <<"h","m","a","c">>, <<"h","t","m","l">>,
    <<"h","t","t","p">>, <<"i","d","l","e","l","i","b">>, <<"i","m","a","p","l","i","b">>, <<"i","m","g","h","d","r">>,
    <<"i","m","p">>, <<"i","m","p","o","r","t","l","i","b">>, <<"i","n","s","p","e","c","t">>, <<"i","o">>,
    <<"i","p","a","d","d","r","e","s","s">>, <<"i","t","e","r","t","o","o","l","s">>, <<"j","s","o","n">>, <<"k","e","y","w","o","r","d">>,
    <<"l","i","b","2","t","o","3">>, <<"l","i","n","e","c","a","c","h","e">>, <<"l","o","c","a","l","e">>, <<"l","o","g","g","i","n","g">>,
    <<"l","z","m","a">>, <<"m","a","i","l","b","o","x">>, <<"m","a","i","l","c","a","p">>, <<"m","a","r","s","h","a","l">>,
    <<"m","a","t","h">>, <<"m","i","m","e","t","y","p","e","s">>, <<"m","m","a","p">>, <<"m","o","d","u","l","e","f","i","n","d","e","r">>,
    <<"m","u","l","t","i","p","r","o","c","e","s","s","i","n","g">>, <<"n","e","t","r","c">>, <<"n","i","s">>, <<"n","n","t","p","l","i","b">>,
    <<"n","u","m","b","e","r","s">>, <<"o","p","e","r","a","t","o","r">>, <<"o","p","t","p","a","r","s","e">>, <<"o","s">>,
    <<"o","s","s","a","u","d","i","o","d","e","v">>, <<"p","a","t","h","l","i","b">>, <<"p","d","b">>, <<"p","i","c","k","l","e">>,
    <<"p","i","c","k","l","e","t","o","o","l","s">>, <<"p","i","p","e","s">>, <<"p","k","g","u","t","i","l">>, <<"p","l","a","t","f","o","r","m">>,
    <<"p","l","i","s","t","l","i","b">>, <<"p","o","p","l","i","b">>, <<"p","o","s","i","x">>, <<"p","o","s","i","x","p","a","t","h">>,
    <<"p","p","r","i","n","t">>, <<"p","r","o","f","i","l","e">>, <<"p","s","t","a","t","s">>, <<"p","t","y">>,
    <<"p","w","d">>, <<"p","y","_","c","o","m","p","i","l","e">>, <<"p","y","c","l","b","r">>, <<"p","y","d","o","c">>,
    <<"q","u","e","u","e">>, <<"q","u","o","p","r","i">>, <<"r","a","n","d","o","m">>, <<"r","e">>,
    <<"r","e","a","d","l","i","n","e">>, <<"r","e","p","r","l","i","b">>, <<"r","e","s","o","u","r","c","e">>, <<"r","l","c","o","m","p","l","e","t","e","r">>,
    <<"r","u","n","p","y">>, <<"s","c","h","e","d">>, <<"s","e","c","r","e","t","s">>, <<"s","e","l","e","c","t">>,
    <<"s","e","l","e","c","t","o","r","s">>, <<"s","h","e","l","v","e">>, <<"s","h","l","e","x">>, <<"s","h","u","t","i","l">>,
    <<"s","i","g","n","a","l">>, <<"s","i","t","e">>, <<"s","m","t","p","d">>, <<"s","m","t","p","l","i","b">>,
    <<"s","n","d","h","d","r">>, <<"s","o","c","k","e","t">>, <<"s","o","c","k","e","t","s","e","r","v","e","r">>, <<"s","p","w","d">>,
    <<"s","q","l","i","t","e","3">>, <<"s","s","l">>, <<"s","t","a","t">>, <<"s","t","a","t","i","s","t","i","c","s">>,
    <<"s","t","r","i","n","g">>, <<"s","t","r","i","n","g","p","r","e","p">>, <<"s","t","r","u","c","t">>, <<"s","u","b","p","r","o","c","e","s","s">>,
    <<"s","u","n","a","u">>, <<"s","y","m","t","a","b","l","e">>, <<"s","y","s">>, <<"s","y","s","c","o","n","f","i","g">>,
    <<"s","y","s","l","o","g">>, <<"t","a","b","n","a","n","n","y">>, <<"t","a","r","f","i","l","e">>, <<"t","e","l","n","e","t","l","i","b">>,
    <<"t","e","m","p","f","i","l","e">>, <<"t","e","r","m","i","o","s">>, <<"t","e","s","t">>, <<"t","e","x","t","w","r","a","p">>,
    <<"t","h","r","e","a","d","i","n","g">>, <<"t","i","m","e">>, <<"t","i","m","e","i","t">>, <<"t","k","i","n","t","e","r">>,
    <<"t","o","k","e","n">>, <<"t","o","k","e","n","i","z","e">>, <<"t","o","m","l","l","i","b">>, <<"t","r","a","c","e">>,
    <<"t","r","a","c","e","b","a","c","k">>, <<"t","r","a","c","e","m","a","l","l","o","c">>, <<"t","t","y">>, <<"t","u","r","t","l","e">>,
    <<"t","u","r","t","l","e","d","e","m","o">>, <<"t","y","p","e","s">>, <<"t","y","p","i","n","g">>, <<"u","n","i","c","o","d","e","d","a","t","a">>,
    <<"u","n","i","t","t","e","s","t">>, <<"u","r","l","l","i","b">>, <<"u","u">>, <<"u","u","i","d">>,
    <<"v","e","n","v">>, <<"w","a","r","n","i","n","g","s">>, <<"w","a","v","e">>, <<"w","e","a","k","r","e","f">>,
    <<"w","e","b","b","r","o","w","s","e","r">>, <<"w","i","n","r","e","g">>, <<"w","i","n","s","o","u","n","d">>, <<"w","s","g","i","r","e","f">>,
    <<"x","d","r","l","i","b">>, <<"x","m","l">>, <<"x","m","l","r","p","c">>, <<"z","i","p","a","p","p">>,
    <<"z","i","p","f","i","l","e">>, <<"z","i","p","i","m","p","o","r","t">>, <<"z","l","i","b">>, <<"z","o","n","e","i","n","f","o">> }

\* moduleName.split('.')[0]
TopLevel(moduleName) == Split(moduleName, ".")[1]

isStdlibModule(moduleName) == TopLevel(moduleName) \in STDLIB_MODULES

\* /^\s*import\s+(\S+)/
ImportRe ==
    <<ReBOL, ReStar(ReSpace)>> \o ReLit(<<"i","m","p","o","r","t">>)
        \o <<RePlus(ReSpace), ReOpen(1), RePlus(ReNonSpace), ReClose(1)>>

\* /^\s*from\s+(\S+)\s+import/
FromRe ==
    <<ReBOL, ReStar(ReSpace)>> \o ReLit(<<"f","r","o","m">>)
        \o <<RePlus(ReSpace), ReOpen(1), RePlus(ReNonSpace), ReClose(1), RePlus(ReSpace)>>
        \o ReLit(<<"i","m","p","o","r","t">>)

\* null is [isNull |-> TRUE]; a string (which may be empty) is [isNull |-> FALSE, name |-> it]
extractModuleName(importLine) ==
    LET importMatch == ReSearch(ImportRe, importLine, 1)
        fromMatch == ReSearch(FromRe, importLine, 1)
    IN  IF importMatch.index # 0
        THEN [isNull |-> FALSE, name |-> TopLevel(Capture(importLine, importMatch, 1))]
        ELSE IF fromMatch.index # 0
        THEN [isNull |-> FALSE, name |-> TopLevel(Capture(importLine, fromMatch, 1))]
        ELSE [isNull |-> TRUE, name |-> <<>>]

\* `await micropip.install("${moduleName}")`
InstallLine(moduleName) == <<"a","w","a","i","t"," ","m","i","c","r","o","p","i","p",".","i","n","s","t","a","l","l","(","\"">> \o moduleName \o <<"\"",")">>

\* The test without installedPackages: every import of a module outside the
\* standard library gets an install line.
NeedsInstallEveryTime(line, installedPackages) ==
    LET m == extractModuleName(line)
    IN  ~m.isNull /\ m.name # <<>> /\ ~isStdlibModule(m.name)

\* moduleName && !isStdlibModule(moduleName) && !installedPackages.has(moduleName)
NeedsInstall(line, installedPackages) ==
    LET m == extractModuleName(line)
    IN  /\ ~m.isNull
        /\ m.name # <<>>
        /\ ~isStdlibModule(m.name)
        /\ m.name \notin installedPackages

RECURSIVE rewriteImportsFromReplacing(_, _, _, _)
\* A loop that puts the install line in the place of the import line.
rewriteImportsFromReplacing(lines, i, result, installedPackages) ==
    IF i > Len(lines) THEN result
    ELSE IF NeedsInstall(lines[i], installedPackages)
    THEN rewriteImportsFromReplacing(lines, i + 1,
             Append(result, InstallLine(extractModuleName(lines[i]).name)),
             installedPackages \cup {extractModuleName(lines[i]).name})
    ELSE rewriteImportsFromReplacing(lines, i + 1, Append(result, lines[i]), installedPackages)

RECURSIVE rewriteImportsFrom(_, _, _, _)
\* The loop of rewriteImports from line i on, with result and installedPackages.
rewriteImportsFrom(lines, i, result, installedPackages) ==
    IF i > Len(lines) THEN result
    ELSE LET line == lines[i]
             moduleName == extractModuleName(line).name
         IN  IF NeedsInstall(line, installedPackages)
             THEN rewriteImportsFrom(lines, i + 1,
                      result \o <<InstallLine(moduleName), line>>,
                      installedPackages \cup {moduleName})
             ELSE rewriteImportsFrom(lines, i + 1, Append(result, line), installedPackages)

\* A rewrite that takes the modules whose install line the code already holds as installed.
rewriteImportsSkippingInstalled(code) ==
    LET lines == Split(code, NL)
        named == {extractModuleName(lines[i]).name : i \in 1..Len(lines)}
        present == {n \in named : \E j \in 1..Len(lines) : lines[j] = InstallLine(n)}
    IN  Join(rewriteImportsFrom(lines, 1, <<>>, present), NL)

rewriteImports(code) == Join(rewriteImportsFrom(Split(code, NL), 1, <<>>, {}), NL)

(***************************************************************************)
(* core/transform: capture.ts                                              *)
(***************************************************************************)

CaptureSetup ==
    <<"i","m","p","o","r","t"," ","s","y","s","\n","i","m","p","o","r","t"," ","i","o","\n","_","_","p","y","x","_","s","t","d","o","u","t","_","_"," ","="," ","i","o",".","S","t","r","i","n","g","I","O","(",")","\n","_","o","r","i","g","i","n","a","l","_","s","t","d","o","u","t"," ","="," ","s","y","s",".","s","t","d","o","u","t","\n","s","y","s",".","s","t","d","o","u","t"," ","="," ","_","_","p","y","x","_","s","t","d","o","u","t","_","_","\n">>

capturePrint(code) == CaptureSetup \o code

\* The prefixes after which extractReturnValue leaves the code alone.
StatementPrefixes ==
    { <<"d","e","f"," ">>, <<"c","l","a","s","s"," ">>, <<"i","f"," ">>, <<"e","l","i","f"," ">>, <<"e","l","s","e",":">>, <<"f","o","r"," ">>, <<"w","h","i","l","e"," ">>,
      <<"t","r","y",":">>, <<"e","x","c","e","p","t">>, <<"f","i","n","a","l","l","y",":">>, <<"w","i","t","h"," ">>, <<"r","e","t","u","r","n"," ">>, <<"r","a","i","s","e"," ">>,
      <<"i","m","p","o","r","t"," ">>, <<"f","r","o","m"," ">>, <<"p","a","s","s">>, <<"b","r","e","a","k">>, <<"c","o","n","t","i","n","u","e">>, <<"@">> }

StartsWithStatementKeyword(codeOnly) == \E p \in StatementPrefixes : StartsWith(codeOnly, p)

\* /^[^=]*(?<![=!<>])=(?!=)/
AssignRe ==
    <<ReBOL, ReStar(ReNot({"="})), ReNotBehind({"=", "!", "<", ">"}), ReCh("="),
      ReNotAhead({"="})>>

isAssignment(codeOnly) ==
    /\ ReTest(AssignRe, codeOnly)
    /\ ~Includes(codeOnly, <<"=","=">>)
    /\ ~Includes(codeOnly, <<"l","a","m","b","d","a">>)

\* line.split('#')[0].trim()
CodeOnly(line) == Trim(Split(line, "#")[1])

RECURSIVE lastExprIndexFrom(_, _)
\* The backward loop of extractReturnValue from the 1-based line i; 0 stands for -1.
lastExprIndexFrom(lines, i) ==
    IF i < 1 THEN 0
    ELSE LET line == Trim(lines[i])
             codeOnly == CodeOnly(line)
         IN  IF line = <<>> \/ StartsWith(line, <<"#">>) THEN lastExprIndexFrom(lines, i - 1)
             ELSE IF StartsWithStatementKeyword(codeOnly) THEN 0
             ELSE IF ~isAssignment(codeOnly) THEN i
             ELSE 0

\* /^(.+?)\s*(#.*)$/
CommentRe ==
    <<ReBOL, ReOpen(1), RePlusLazy(ReDot), ReClose(1), ReStar(ReSpace),
      ReOpen(2), ReCh("#"), ReStar(ReDot), ReClose(2), ReEOL>>

ResultPrefix == <<"_","_","p","y","x","_","r","e","s","u","l","t","_","_"," ","="," ">>

\* The rewritten last expression line.
ResultLine(originalLine) ==
    LET indent == LeadingSpace(originalLine)
        trimmedLine == Trim(originalLine)
        commentMatch == ReSearch(CommentRe, trimmedLine, 1)
    IN  IF commentMatch.index # 0
        THEN indent \o ResultPrefix \o Capture(trimmedLine, commentMatch, 1)
                 \o <<" "," ">> \o Capture(trimmedLine, commentMatch, 2)
        ELSE indent \o ResultPrefix \o trimmedLine

extractReturnValue(code) ==
    LET lines == Split(code, NL)
        lastExprIndex == lastExprIndexFrom(lines, Len(lines))
    IN  IF lastExprIndex = 0 THEN code
        ELSE Join([lines EXCEPT ![lastExprIndex] = ResultLine(lines[lastExprIndex])], NL)

(***************************************************************************)
(* core/transform: input.ts, exceptions.ts                                 *)
(***************************************************************************)

\* /\binput\s*\(/g
InputRe == <<ReWB>> \o ReLit(<<"i","n","p","u","t">>) \o <<ReStar(ReSpace), ReCh("(")>>

RECURSIVE ReplaceAllFrom(_, _, _, _, _)
\* s.replace(regex, replacement) over the matches ms[k..], having copied s up to from - 1
ReplaceAllFrom(s, ms, k, from, replacement) ==
    IF k > Len(ms) THEN Drop(s, from)
    ELSE SubSeq(s, from, ms[k].index - 1) \o replacement
             \o ReplaceAllFrom(s, ms, k + 1, ms[k].end, replacement)

mockInput(code) ==
    ReplaceAllFrom(code, ReMatchAll(InputRe, code), 1, 1, <<"a","w","a","i","t"," ","_","_","p","y","x","_","i","n","p","u","t","_","_","(">>)

ExceptionsHeader == <<"i","m","p","o","r","t"," ","t","r","a","c","e","b","a","c","k","\n","_","_","p","y","x","_","e","r","r","o","r","_","_"," ","="," ","N","o","n","e","\n","t","r","y",":","\n">>

ExceptionsFooter ==
    <<"\n","e","x","c","e","p","t"," ","E","x","c","e","p","t","i","o","n"," ","a","s"," ","_","_","p","y","x","_","e","x","c","_","_",":","\n"," "," "," "," ","_","_","p","y","x","_","e","r","r","o","r","_","_"," ","="," ","{","\n"," "," "," "," "," "," "," "," ","'","t","y","p","e","'",":"," ","t","y","p","e","(","_","_","p","y","x","_","e","x","c","_","_",")",".","_","_","n","a","m","e","_","_",",","\n"," "," "," "," "," "," "," "," ","'","m","e","s","s","a","g","e","'",":"," ","s","t","r","(","_","_","p","y","x","_","e","x","c","_","_",")",",","\n"," "," "," "," "," "," "," "," ","'","t","r","a","c","e","b","a","c","k","'",":"," ","t","r","a","c","e","b","a","c","k",".","f","o","r","m","a","t","_","e","x","c","(",")","\n"," "," "," "," ","}","\n">>

wrapExceptions(code) ==
    LET lines == Split(code, NL)
        indentedLines == IndentLines(lines)
        indentedCode == Join(indentedLines, NL)
    IN  ExceptionsHeader \o indentedCode \o ExceptionsFooter

(***************************************************************************)
(* core/safety: rules.ts                                                   *)
(* A rule is [type, patterns, message, arg, severity, skip]: message is    *)
(* the text getMessage returns, arg says whether match[1] is spliced into  *)
(* it, and skip names the rule's skipIf ("none" when it has none).         *)
(***************************************************************************)

Quotes == {"'", "\""}

\* /\bimport\s+NAME\b/
ImportPattern(name) ==
    <<ReWB>> \o ReLit(<<"i","m","p","o","r","t">>) \o <<RePlus(ReSpace)>> \o ReLit(name) \o <<ReWB>>

\* /\bfrom\s+NAME\s+import\b/
FromImportPattern(name) ==
    <<ReWB>> \o ReLit(<<"f","r","o","m">>) \o <<RePlus(ReSpace)>> \o ReLit(name)
        \o <<RePlus(ReSpace)>> \o ReLit(<<"i","m","p","o","r","t">>) \o <<ReWB>>

\* /\bNAME\s*\(/
CallPattern(name) == <<ReWB>> \o ReLit(name) \o <<ReStar(ReSpace), ReCh("(")>>

\* /open\s*\(\s*['"](DIR[^'"]*)['"]/
OpenDirPattern(dir) ==
    ReLit(<<"o","p","e","n">>) \o <<ReStar(ReSpace), ReCh("("), ReStar(ReSpace), ReSet(Quotes), ReOpen(1)>>
        \o ReLit(dir) \o <<ReStar(ReNot(Quotes)), ReClose(1), ReSet(Quotes)>>

\* /open\s*\(\s*['"](\/.+?)['"]\s*,\s*['"][wa]/
OpenWritePattern ==
    ReLit(<<"o","p","e","n">>) \o <<ReStar(ReSpace), ReCh("("), ReStar(ReSpace), ReSet(Quotes), ReOpen(1),
                         ReCh("/"), RePlusLazy(ReDot), ReClose(1), ReSet(Quotes),
                         ReStar(ReSpace), ReCh(","), ReStar(ReSpace), ReSet(Quotes),
                         ReSet({"w", "a"})>>

\* /range\s*\(\s*10\s*\*\*\s*[789]\s*\)/
RangeTenPattern ==
    ReLit(<<"r","a","n","g","e">>) \o <<ReStar(ReSpace), ReCh("("), ReStar(ReSpace)>> \o ReLit(<<"1","0">>)
        \o <<ReStar(ReSpace), ReCh("*"), ReCh("*"), ReStar(ReSpace), ReSet({"7", "8", "9"}),
             ReStar(ReSpace), ReCh(")")>>

\* /range\s*\(\s*2\s*\*\*\s*[3-9][0-9]+\s*\)/
RangeTwoPattern ==
    ReLit(<<"r","a","n","g","e">>) \o <<ReStar(ReSpace), ReCh("("), ReStar(ReSpace), ReCh("2"),
                          ReStar(ReSpace), ReCh("*"), ReCh("*"), ReStar(ReSpace),
                          ReSet({"3", "4", "5", "6", "7", "8", "9"}), RePlus(ReSet(Digits)),
                          ReStar(ReSpace), ReCh(")")>>

\* /\*\s*\(\s*10\s*\*\*\s*[789]\s*\)/
TimesTenPattern ==
    <<ReCh("*"), ReStar(ReSpace), ReCh("("), ReStar(ReSpace)>> \o ReLit(<<"1","0">>)
        \o <<ReStar(ReSpace), ReCh("*"), ReCh("*"), ReStar(ReSpace), ReSet({"7", "8", "9"}),
             ReStar(ReSpace), ReCh(")")>>

\* /\[\s*[^\]]*\]\s*\*\s*10000\s*\]\s*\*\s*10000/
NestedListPattern ==
    <<ReCh("["), ReStar(ReSpace), ReStar(ReNot({"]"})), ReCh("]"), ReStar(ReSpace), ReCh("*"),
      ReStar(ReSpace)>> \o ReLit(<<"1","0","0","0","0">>)
        \o <<ReStar(ReSpace), ReCh("]"), ReStar(ReSpace), ReCh("*"), ReStar(ReSpace)>>
        \o ReLit(<<"1","0","0","0","0">>)

\* /while\s+WORD\s*:/
WhilePattern(word) ==
    ReLit(<<"w","h","i","l","e">>) \o <<RePlus(ReSpace)>> \o ReLit(word) \o <<ReStar(ReSpace), ReCh(":")>>

\* /\bbreak\b/
BreakPattern == <<ReWB>> \o ReLit(<<"b","r","e","a","k">>) \o <<ReWB>>

Rule(type, patterns, message, severity) ==
    [type |-> type, patterns |-> patterns, message |-> message, arg |-> FALSE,
     severity |-> severity, skip |-> "none"]

ImportRule(type, name, message) ==
    Rule(type, <<ImportPattern(name), FromImportPattern(name)>>, message, "error")

dangerousImportRules ==
    << ImportRule("dangerous_import", <<"o","s">>,
                  "Dangerous import: os module allows system access"),
       ImportRule("dangerous_import", <<"s","u","b","p","r","o","c","e","s","s">>,
                  "Dangerous import: subprocess module allows command execution"),
       ImportRule("dangerous_import", <<"s","o","c","k","e","t">>,
                  "Dangerous import: socket module allows network access"),
       ImportRule("dangerous_import", <<"p","t","y">>,
                  "Dangerous import: pty module allows pseudo-terminal access") >>

codeExecutionRules ==
    << Rule("code_execution", <<CallPattern(<<"e","x","e","c">>)>>,
            "Dangerous function: exec() can execute arbitrary code", "error"),
       Rule("code_execution", <<CallPattern(<<"e","v","a","l">>)>>,
            "Dangerous function: eval() can execute arbitrary code", "error"),
       Rule("code_execution", <<CallPattern(<<"c","o","m","p","i","l","e">>)>>,
            "Dangerous function: compile() can compile arbitrary code", "error"),
       Rule("code_execution",
            <<ReLit(<<"_","_","i","m","p","o","r","t","_","_">>) \o <<ReStar(ReSpace), ReCh("(")>> >>,
            "Dangerous function: __import__() can import arbitrary modules", "error") >>

filesystemRules ==
    << [Rule("filesystem_access", <<OpenDirPattern(<<"/","e","t","c","/">>)>>,
             "Filesystem access: Attempting to access /etc/ (${match[1]})", "error")
           EXCEPT !.arg = TRUE],
       [Rule("filesystem_access", <<OpenDirPattern(<<"/","p","r","o","c","/">>)>>,
             "Filesystem access: Attempting to access /proc/ (${match[1]})", "error")
           EXCEPT !.arg = TRUE],
       [Rule("filesystem_access", <<OpenWritePattern>>,
             "Filesystem access: Writing to absolute path ${match[1]}", "error")
           EXCEPT !.arg = TRUE] >>

networkRules ==
    << Rule("network_access",
            <<ImportPattern(<<"u","r","l","l","i","b">>),
              <<ReWB>> \o ReLit(<<"f","r","o","m">>) \o <<RePlus(ReSpace)>> \o ReLit(<<"u","r","l","l","i","b">>) \o <<ReWB>> >>,
            "Network access: urllib allows HTTP requests", "error"),
       ImportRule("network_access", <<"h","t","t","p",".","c","l","i","e","n","t">>,
                  "Network access: http.client allows HTTP connections"),
       ImportRule("network_access", <<"r","e","q","u","e","s","t","s">>,
                  "Network access: requests library allows HTTP requests"),
       ImportRule("network_access", <<"f","t","p","l","i","b">>,
                  "Network access: ftplib allows FTP connections") >>

dangerousAttributeRules ==
    << Rule("dangerous_attribute", <<ReLit(<<"_","_","b","u","i","l","t","i","n","s","_","_">>)>>,
            "Dangerous attribute: __builtins__ access can bypass sandboxing", "error"),
       Rule("dangerous_attribute", <<ReLit(<<"_","_","g","l","o","b","a","l","s","_","_">>)>>,
            "Dangerous attribute: __globals__ access can expose sensitive data", "error"),
       Rule("dangerous_attribute", <<ReLit(<<"_","_","c","o","d","e","_","_">>)>>,
            "Dangerous attribute: __code__ access can modify function behavior", "error"),
       Rule("dangerous_attribute", <<ReLit(<<"_","_","s","u","b","c","l","a","s","s","e","s","_","_">>)>>,
            "Dangerous attribute: __subclasses__ access enables class traversal attacks", "error"),
       Rule("dangerous_attribute", <<ReLit(<<"_","_","m","r","o","_","_">>)>>,
            "Dangerous attribute: __mro__ access enables method resolution order traversal",
            "error") >>

serializationRules ==
    << ImportRule("serialization_danger", <<"p","i","c","k","l","e">>,
                  "Serialization danger: pickle can execute arbitrary code during deserialization"),
       ImportRule("serialization_danger", <<"c","P","i","c","k","l","e">>,
                  "Serialization danger: cPickle can execute arbitrary code during deserialization"),
       ImportRule("serialization_danger", <<"m","a","r","s","h","a","l">>,
                  "Serialization danger: marshal can execute arbitrary code"),
       ImportRule("serialization_danger", <<"s","h","e","l","v","e">>,
                  "Serialization danger: shelve uses pickle internally") >>

ffiRules ==
    << ImportRule("ffi_danger", <<"c","t","y","p","e","s">>, "FFI danger: ctypes allows calling native libraries"),
       ImportRule("ffi_danger", <<"c","f","f","i">>, "FFI danger: cffi allows calling native libraries") >>

\* A skip predicate that looks for the letters `break` anywhere, also inside a longer word.
SkipIfBreakSubstring(code) == Includes(code, <<"b","r","e","a","k">>)

\* skipIf: (code) => /\bbreak\b/.test(code)

SkipIfBreak(code) == ReTest(BreakPattern, code)

infiniteLoopRules ==
    << [Rule("infinite_loop", <<WhilePattern(<<"T","r","u","e">>)>>,
             "Potential infinite loop: while True without apparent break", "warning")
           EXCEPT !.skip = "break"],
       [Rule("infinite_loop", <<WhilePattern(<<"1">>)>>,
             "Potential infinite loop: while 1 without apparent break", "warning")
           EXCEPT !.skip = "break"] >>

resourceExhaustionRules ==
    << Rule("resource_exhaustion", <<RangeTenPattern>>,
            "Resource exhaustion: range() with extremely large value (10^7+)", "error"),
       Rule("resource_exhaustion", <<RangeTwoPattern>>,
            "Resource exhaustion: range() with exponential value", "error"),
       Rule("resource_exhaustion", <<TimesTenPattern>>,
            "Resource exhaustion: multiplication with extremely large value", "error"),
       Rule("resource_exhaustion", <<NestedListPattern>>,
            "Resource exhaustion: nested list multiplication creating huge array", "error") >>

commandInjectionRules ==
    << Rule("command_injection",
            <<ReLit(<<"o","s",".","p","o","p","e","n">>) \o <<ReStar(ReSpace), ReCh("(")>> >>,
            "Command injection risk: os.popen() with potential user input", "error"),
       Rule("command_injection",
            <<ReLit(<<"s","h","e","l","l">>) \o <<ReStar(ReSpace), ReCh("="), ReStar(ReSpace)>> \o ReLit(<<"T","r","u","e">>)>>,
            "Command injection risk: shell=True allows shell injection", "error"),
       Rule("command_injection",
            <<ReLit(<<"o","s",".","s","y","s","t","e","m">>)
                \o <<ReStar(ReSpace), ReCh("("), ReStar(ReSpace), ReCh("f"), ReSet(Quotes)>> >>,
            "Command injection risk: os.system() with f-string", "error") >>

allRules ==
    dangerousImportRules \o codeExecutionRules \o filesystemRules \o networkRules
        \o dangerousAttributeRules \o serializationRules \o ffiRules \o infiniteLoopRules
        \o resourceExhaustionRules \o commandInjectionRules

(***************************************************************************)
(* core/safety: analyzer.ts                                                *)
(***************************************************************************)

\* A line number that counts the line breaks before the match, the first line being 0.
getLineNumberZeroBased(code, index) == Len(Split(SubSeq(code, 1, index - 1), NL)) - 1

\* code.substring(0, index).split('\n').length, for a 1-based index
getLineNumber(code, index) == Len(Split(SubSeq(code, 1, index - 1), NL))

\* rule.skipIf && rule.skipIf(code, match)
Skipped(rule, code) == rule.skip = "break" /\ SkipIfBreak(code)

\* The violation applyRule pushes for match m of rule.
Violation(rule, code, m) ==
    [type |-> rule.type,
     message |-> rule.message,
     arg |-> IF rule.arg THEN Capture(code, m, 1) ELSE <<>>,
     line |-> getLineNumber(code, m.index),
     severity |-> rule.severity]

\* The violations of one pattern of a rule, in the order of the matches.
PatternViolations(rule, pattern, code) ==
    LET matches == ReMatchAll(pattern, code)
    IN  IF Skipped(rule, code) THEN <<>>
        ELSE [k \in 1..Len(matches) |-> Violation(rule, code, matches[k])]

RECURSIVE applyRuleFrom(_, _, _)
applyRuleFrom(code, rule, p) ==
    IF p > Len(rule.patterns) THEN <<>>
    ELSE PatternViolations(rule, rule.patterns[p], code) \o applyRuleFrom(code, rule, p + 1)

applyRule(code, rule) == applyRuleFrom(code, rule, 1)

RECURSIVE analyzeFrom(_, _)
analyzeFrom(code, r) ==
    IF r > Len(allRules) THEN <<>>
    ELSE applyRule(code, allRules[r]) \o analyzeFrom(code, r + 1)

\* A report that counts as safe when it holds no violation of severity error.
IsSafeErrorsOnly(violations) ==
    \A k \in 1..Len(violations) : violations[k].severity # "error"

\* safe: violations.length === 0

IsSafe(violations) == Len(violations) = 0

analyze(code) ==
    LET violations == analyzeFrom(code, 1)
    IN  [safe |-> IsSafe(violations), violations |-> violations]

(***************************************************************************)
(* The state machine: a source text is drawn, and the exported functions   *)
(* are called on it; a call after the first is made on the result of the   *)
(* call before it, as callers compose the passes.                          *)
(***************************************************************************)

\* All the texts of at most n lines drawn from the set of lines vocab.
TextsOf(vocab, n) == {Join(ls, NL) : ls \in UNION {[1..k -> vocab] : k \in 0..n}}

\* The text the next call is made on.
Current == texts[Len(texts)]

NoReport == [safe |-> FALSE, violations |-> <<>>]

NoIndent == [indent |-> 0, before |-> <<0>>, after |-> <<0>>]

TokIdle ==
    /\ tkSource = <<>>
    /\ tkPos = 0
    /\ indentStack = <<0>>
    /\ pendingTokens = <<>>
    /\ atLineStart = TRUE
    /\ tkPhase = "idle"
    /\ emitted = <<>>
    /\ lastIndent = NoIndent

\* No node: what a field holds where the code has null or undefined.
NoNode == [type |-> "", fields |-> <<>>]

NoParse == [status |-> "none", node |-> NoNode]

NoHook == [type |-> "", returns |-> ""]

NoTransform == [status |-> "none", node |-> NoNode, root |-> NoNode, hook |-> NoHook]

AstIdle ==
    /\ parsed = NoParse
    /\ yielded = <<>>
    /\ transformed = NoTransform

NoCall == [op |-> "none", pkg |-> <<>>, version |-> <<>>, threw |-> FALSE, message |-> <<>>, before |-> <<>>]

NoExport == [format |-> "none", packages |-> <<>>, text |-> <<>>, from |-> <<>>]

NoImport == [status |-> "none", via |-> "none", packages |-> <<>>, message |-> <<>>]

NoRun == [status |-> "none"]

VenvIdle ==
    /\ packages = <<>>
    /\ venvLast = NoCall
    /\ strictPyodideCompatibility = FALSE
    /\ exported = NoExport
    /\ imported = NoImport
    /\ depRun = NoRun

\* A MockBackend just constructed.
NewBackend == [globals |-> <<>>, packages |-> <<>>, restored |-> 0]

\* null, for SessionManager.state and for a key the storage does not hold
NoSession == [id |-> ""]

\* The session ids of the model.
SessionIds == {"A", "B"}

\* undefined, for a key the storage does not hold
Undefined == [defined |-> FALSE, value |-> <<>>]

Defined(value) == [defined |-> TRUE, value |-> value]

\* The storage by kind of key: `session:<id>`, `history:<id>`,
\* `session:<id>:snapshots`, and `snapshot:<n>:data` with `snapshot:<n>:meta`
\* for the n-th snapshot created.
EmptyStorage ==
    [sessions |-> [id \in SessionIds |-> NoSession],
     histories |-> [id \in SessionIds |-> Undefined],
     lists |-> [id \in SessionIds |-> Undefined],
     snapshots |-> <<>>]

\* A SessionManager just constructed; timeout and now are in ticks.
NewManager(maxHistory) ==
    [state |-> NoSession, history |-> <<>>, maxHistory |-> maxHistory, timeout |-> 1,
     last |-> [op |-> "none"]]

ServiceIdle ==
    /\ mock = NewBackend
    /\ taken = <<>>
    /\ storage = EmptyStorage
    /\ manager = NewManager(100)
    /\ requests = <<>>
    /\ ran = <<>>
    /\ now = 0

InitWith(inputs) ==
    /\ src \in inputs
    /\ calls = <<>>
    /\ texts = <<src>>
    /\ report = NoReport
    /\ TokIdle
    /\ AstIdle
    /\ VenvIdle
    /\ ServiceIdle

\* One more call, of the function called name, returning result.
Call(name, result) ==
    /\ calls' = Append(calls, name)
    /\ texts' = Append(texts, result)
    /\ UNCHANGED <<src, report, tokVars, astVars, venvVars, serviceVars>>

WrapAsync(maxCalls) == Len(calls) < maxCalls /\ Call("wrapAsync", wrapAsync(Current))

RewriteImports(maxCalls) == Len(calls) < maxCalls /\ Call("rewriteImports", rewriteImports(Current))

WrapTopLevelAwait(maxCalls) ==
    Len(calls) < maxCalls /\ Call("wrapTopLevelAwait", wrapTopLevelAwait(Current))

CapturePrint(maxCalls) == Len(calls) < maxCalls /\ Call("capturePrint", capturePrint(Current))

ExtractReturnValue(maxCalls) ==
    Len(calls) < maxCalls /\ Call("extractReturnValue", extractReturnValue(Current))

MockInput(maxCalls) == Len(calls) < maxCalls /\ Call("mockInput", mockInput(Current))

WrapExceptions(maxCalls) ==
    Len(calls) < maxCalls /\ Call("wrapExceptions", wrapExceptions(Current))

Analyze ==
    /\ calls = <<>>
    /\ calls' = <<"analyze">>
    /\ report' = analyze(src)
    /\ UNCHANGED <<src, texts, tokVars, astVars, venvVars, serviceVars>>

(***************************************************************************)
(* analyze on sources of a few lines that exercise the rule groups         *)
(***************************************************************************)

MaxAnalyzeLines == 2

OsSystemSource == <<"i","m","p","o","r","t"," ","o","s","\n","o","s",".","s","y","s","t","e","m","(","'","r","m"," ","-","r","f"," ","/","'",")">>

AnalyzeLines ==
    { <<"i","m","p","o","r","t"," ","o","s">>,
      <<"o","s",".","s","y","s","t","e","m","(","'","r","m"," ","-","r","f"," ","/","'",")">>,
      <<"o","s",".","s","y","s","t","e","m","(","f","\"","l","s"," ","{","d","}","\"",")">>,
      <<"w","h","i","l","e"," ","T","r","u","e",":">>,
      <<"w","h","i","l","e"," "," ","1"," ",":">>,
      <<" "," "," "," ","b","r","e","a","k">>,
      <<" "," "," "," ","b","r","e","a","k","f","a","s","t"," ","="," ","1">>,
      <<"x"," ","="," ","1">>,
      <<"e","v","a","l","(","x",")">>,
      <<"s","u","b","p","r","o","c","e","s","s",".","c","a","l","l","(","c",","," ","s","h","e","l","l","=","T","r","u","e",")">>,
      <<"f"," ","="," ","o","p","e","n","(","\"","/","e","t","c","/","p","a","s","s","w","d","\"",")">>,
      <<>> }

AnalyzeInputs == TextsOf(AnalyzeLines, MaxAnalyzeLines)

InitAnalyze == InitWith(AnalyzeInputs)

SpecAnalyze == InitAnalyze /\ [][Analyze]_vars

Analyzed == calls = <<"analyze">>

HasViolation(type) == \E k \in 1..Len(report.violations) : report.violations[k].type = type

\* C1: the report of analyze has safe = true if and only if its violations list is empty.
C1_SafeIffNoViolations == Analyzed => (report.safe <=> report.violations = <<>>)

\* A report whose only violations are warnings, which is not safe.
C1_Witness ==
    /\ Analyzed
    /\ report.violations # <<>>
    /\ \A k \in 1..Len(report.violations) : report.violations[k].severity = "warning"
    /\ ~report.safe

OsImportViolation ==
    [type |-> "dangerous_import",
     message |-> "Dangerous import: os module allows system access",
     arg |-> <<>>, line |-> 1, severity |-> "error"]

\* C2 as stated: for `import os` / `os.system('rm -rf /')` analyze returns safe = false with
\* a dangerous_import violation for os at line 1 and a command_injection violation.
C2_Original ==
    (Analyzed /\ src = OsSystemSource) =>
        /\ ~report.safe
        /\ \E k \in 1..Len(report.violations) : report.violations[k] = OsImportViolation
        /\ HasViolation("command_injection")

\* C2 amended: for that source analyze returns safe = false with exactly one violation, the
\* dangerous_import for os at line 1; os.system with a plain string literal is no
\* command_injection (that rule needs an f-string argument).
C2_Amended ==
    (Analyzed /\ src = OsSystemSource) =>
        /\ ~report.safe
        /\ report.violations = <<OsImportViolation>>
        /\ ~HasViolation("command_injection")

C2_Witness == Analyzed /\ src = OsSystemSource /\ Len(report.violations) = 1

\* The text contains `while`, whitespace, `True` or `1`, optional whitespace and `:`.
ContainsWhileHeader(s) ==
    \E i \in 1..Len(s) :
        /\ OccursAt(s, <<"w","h","i","l","e">>, i)
        /\ \E w \in {<<"T","r","u","e">>, <<"1">>} : \E a \in 1..Len(s) : \E b \in 0..Len(s) :
              /\ \A p \in (i + 5)..(i + 4 + a) : p <= Len(s) /\ s[p] \in WS
              /\ OccursAt(s, w, i + 5 + a)
              /\ \A p \in (i + 5 + a + Len(w))..(i + 4 + a + Len(w) + b) :
                    p <= Len(s) /\ s[p] \in WS
              /\ OccursAt(s, <<":">>, i + 5 + a + Len(w) + b)

\* The text contains `break` as a word of its own.
ContainsWordBreak(s) ==
    \E i \in 1..Len(s) :
        OccursAt(s, <<"b","r","e","a","k">>, i) /\ ~IsWordAt(s, i - 1) /\ ~IsWordAt(s, i + 5)

\* C3: analyze reports an infinite_loop violation if and only if the source contains a
\* `while True:` or `while 1:` header and the word `break` occurs nowhere in the source.
C3_InfiniteLoopIffNoBreak ==
    Analyzed =>
        (HasViolation("infinite_loop") <=> (ContainsWhileHeader(src) /\ ~ContainsWordBreak(src)))

\* A loop header with a break elsewhere in the source: skipped.
C3_Witness ==
    /\ Analyzed
    /\ ContainsWhileHeader(src)
    /\ ContainsWordBreak(src)
    /\ ~HasViolation("infinite_loop")

\* A loop header without any break: reported.
C3_WitnessReported == Analyzed /\ HasViolation("infinite_loop") /\ ~ContainsWordBreak(src)

(***************************************************************************)
(* rewriteImports, applied once and again to its own result                *)
(***************************************************************************)

MaxImportLines == 2

MaxRewritePasses == 2

ImportLines ==
    { <<"i","m","p","o","r","t"," ","n","u","m","p","y"," ","a","s"," ","n","p">>,
      <<"i","m","p","o","r","t"," ","n","u","m","p","y">>,
      <<"i","m","p","o","r","t"," ","n","u","m","p","y",".","l","i","n","a","l","g">>,
      <<"f","r","o","m"," ","m","a","t","p","l","o","t","l","i","b"," ","i","m","p","o","r","t"," ","p","y","p","l","o","t"," ","a","s"," ","p","l","t">>,
      <<" "," ","i","m","p","o","r","t"," ","r","e","q","u","e","s","t","s",".","a","d","a","p","t","e","r","s">>,
      <<"i","m","p","o","r","t"," ","o","s">>,
      <<"i","m","p","o","r","t"," ","o","s",","," ","s","y","s">>,
      <<"f","r","o","m"," ","o","s",".","p","a","t","h"," ","i","m","p","o","r","t"," ","j","o","i","n">>,
      <<"f","r","o","m"," ","."," ","i","m","p","o","r","t"," ","x">>,
      <<"x"," ","="," ","1">> }

ImportInputs == TextsOf(ImportLines, MaxImportLines)

InitImports == InitWith(ImportInputs)

SpecImports == InitImports /\ [][RewriteImports(MaxRewritePasses)]_vars

LinesOf(text) == Split(text, NL)

\* The k-th call, a call of rewriteImports, has returned.
Rewritten(k) == Len(calls) >= k /\ calls[k] = "rewriteImports"

\* C4 as stated: rewrite_imports(rewrite_imports(x)) = rewrite_imports(x).
C4_Original == (Rewritten(1) /\ Rewritten(2)) => texts[3] = texts[2]

\* C4 amended: a pass of rewrite_imports over the result of a pass returns that result
\* unchanged exactly when the earlier pass had changed nothing; otherwise it adds as many
\* lines again as the earlier pass added.
C4_Amended ==
    \A k \in 1..Len(calls) :
        (Rewritten(k) /\ Rewritten(k + 1)) =>
            /\ (texts[k + 2] = texts[k + 1]) <=> (texts[k + 1] = texts[k])
            /\ Len(LinesOf(texts[k + 2])) - Len(LinesOf(texts[k + 1]))
                   = Len(LinesOf(texts[k + 1])) - Len(LinesOf(texts[k]))

\* Two passes over a source with a package import: each pass added a line.
C4_Witness ==
    /\ Rewritten(1) /\ Rewritten(2)
    /\ texts[2] # texts[1]
    /\ texts[3] # texts[2]

\* The line is `await micropip.install("...")`.
IsInstallLine(line) ==
    /\ StartsWith(line, <<"a","w","a","i","t"," ","m","i","c","r","o","p","i","p",".","i","n","s","t","a","l","l","(","\"">>)
    /\ Len(line) >= Len(<<"a","w","a","i","t"," ","m","i","c","r","o","p","i","p",".","i","n","s","t","a","l","l","(","\"","\"",")">>)
    /\ SubSeq(line, Len(line) - 1, Len(line)) = <<"\"",")">>

\* The first word of a text: up to the first blank, as written.
FirstWord(s) ==
    LET t == Trim(s)
        blanks == {i \in 1..Len(t) : t[i] \in WS}
    IN  IF blanks = {} THEN t ELSE SubSeq(t, 1, Min(blanks) - 1)

\* What follows the first word of a text.
AfterFirstWord(s) == LET t == Trim(s) IN Trim(Drop(t, Len(FirstWord(t)) + 1))

\* Python's reading of an import line: the top-level names of the modules it imports.
\* `import a.b as c, d` imports a and d; `from a.b import c` imports a; a relative
\* import (`from . import x`) names no module.
ImportedModules(line) ==
    LET word == FirstWord(line)
        rest == AfterFirstWord(line)
        items == Split(rest, ",")
    IN  IF word = <<"i","m","p","o","r","t">>
        THEN {Split(FirstWord(items[i]), ".")[1] : i \in 1..Len(items)} \ {<<>>}
        ELSE IF word = <<"f","r","o","m">> /\ Includes(rest, <<" ","i","m","p","o","r","t"," ">>)
        THEN {Split(FirstWord(rest), ".")[1]} \ {<<>>}
        ELSE {}

IsImportLine(line) == ImportedModules(line) # {}

\* The output is the input with install lines added at the positions added, and nowhere else.
AddsExactly(input, output, added) ==
    LET kept == {p \in 1..Len(output) : p \notin added}
        nth(k) == CHOOSE p \in kept : Cardinality({q \in kept : q < p}) = k - 1
    IN  /\ Cardinality(kept) = Len(input)
        /\ \A k \in 1..Len(input) : output[nth(k)] = input[k]
        /\ \A p \in added :
              /\ IsInstallLine(output[p])
              /\ p + 1 \in kept
              /\ \E m \in ImportedModules(output[p + 1]) : m \notin STDLIB_MODULES

\* C7: rewrite_imports only adds lines: without the added install lines the output is the
\* input line for line, every added line stands immediately before an import line whose
\* top-level module is not a standard-library module, and an input whose import lines name
\* only standard-library modules is returned unchanged.
C7_OnlyAddsInstallLines ==
    \A k \in 1..Len(calls) :
        Rewritten(k) =>
            LET input == LinesOf(texts[k])
                output == LinesOf(texts[k + 1])
            IN  /\ \E added \in SUBSET (1..Len(output)) : AddsExactly(input, output, added)
                /\ (\A i \in 1..Len(input) : ImportedModules(input[i]) \subseteq STDLIB_MODULES)
                       => texts[k + 1] = texts[k]


(***************************************************************************)
(* One install line per module                                             *)
(***************************************************************************)

Count(lines, line) == Cardinality({i \in 1..Len(lines) : lines[i] = line})

\* C19: within one rewrite_imports call at most one line
\* `await micropip.install("X")` is inserted for each module name X, however
\* many import lines name X or its submodules: the result holds at most one
\* such line more than the input.
C19_OneInstallPerModule ==
    \A k \in 1..Len(calls) :
        Rewritten(k) =>
            LET input == LinesOf(texts[k])
                output == LinesOf(texts[k + 1])
            IN  \A p \in 1..Len(output) :
                    IsInstallLine(output[p]) =>
                        Count(output, output[p]) - Count(input, output[p]) <= 1

\* Two lines of the source import the same package, or it and a submodule of
\* it, and the call inserted its install line once.
C19_Witness ==
    /\ Rewritten(1)
    /\ \E i, j \in 1..Len(LinesOf(src)) :
           /\ i < j
           /\ \E m \in ImportedModules(LinesOf(src)[i]) \cap ImportedModules(LinesOf(src)[j]) :
                  /\ m \notin STDLIB_MODULES
                  /\ Count(LinesOf(texts[2]), InstallLine(m)) = 1
(***************************************************************************)
(* wrapTopLevelAwait on sources with await in and out of async def         *)
(***************************************************************************)

MaxAwaitLines == 3

MaxAwaitCalls == 2

AwaitLines ==
    { <<"r","e","s","u","l","t"," ","="," ","a","w","a","i","t"," ","f","e","t","c","h","_","d","a","t","a","(",")">>,
      <<"a","w","a","i","t"," ","g","(",")">>,
      <<"a","s","y","n","c"," ","d","e","f"," ","f","o","o","(",")",":">>,
      <<" "," "," "," ","r","e","t","u","r","n"," ","a","w","a","i","t"," ","b","a","r","(",")">>,
      <<"x"," ","="," ","\"","a","w","a","i","t"," ","y","\"">>,
      <<"x"," ","="," ","1"," "," ","#"," ","a","w","a","i","t"," ","t","h","e"," ","r","e","s","u","l","t">>,
      <<"p","r","i","n","t","(","x",")">>,
      <<>> }

AwaitInputs == TextsOf(AwaitLines, MaxAwaitLines)

InitAwait == InitWith(AwaitInputs)

SpecAwait == InitAwait /\ [][WrapTopLevelAwait(MaxAwaitCalls)]_vars

\* The number of blanks a line starts with.
IndentOf(line) ==
    LET solid == {i \in 1..Len(line) : line[i] \notin WS}
    IN  IF solid = {} THEN Len(line) ELSE Min(solid) - 1

IsBlankLine(line) == \A i \in 1..Len(line) : line[i] \in WS

\* Position p of the line lies within a string literal: an odd number of quotes of one
\* kind precedes it (the lines at hand hold no escaped or nested quotes).
InStringLiteral(line, p) ==
    \E q \in Quotes : Cardinality({i \in 1..(p - 1) : line[i] = q}) % 2 = 1

\* Position p of the line lies in a comment: a # outside any string literal precedes it.
InComment(line, p) == \E i \in 1..(p - 1) : line[i] = "#" /\ ~InStringLiteral(line, i)

\* The line holds the keyword await as code, not as text of a string or of a comment.
HasAwaitKeyword(line) ==
    \E p \in 1..Len(line) :
        /\ OccursAt(line, <<"a","w","a","i","t">>, p)
        /\ ~IsWordAt(line, p - 1)
        /\ ~IsWordAt(line, p + 5)
        /\ ~InStringLiteral(line, p)
        /\ ~InComment(line, p)

\* Line i belongs to the body of an async def: an `async def` header above it is
\* indented less than every non-blank line from the header's next line down to line i.
InAsyncDefBody(lines, i) ==
    \E j \in 1..(i - 1) :
        /\ StartsWith(Trim(lines[j]), <<"a","s","y","n","c"," ","d","e","f"," ">>)
        /\ \A m \in (j + 1)..i : IsBlankLine(lines[m]) \/ IndentOf(lines[m]) > IndentOf(lines[j])

\* The text holds a bare await outside every async def block.
HasBareTopLevelAwait(text) ==
    LET lines == LinesOf(text)
    IN  \E i \in 1..Len(lines) : HasAwaitKeyword(lines[i]) /\ ~InAsyncDefBody(lines, i)

WrappedTopLevelAwait(k) == Len(calls) >= k /\ calls[k] = "wrapTopLevelAwait"

\* C5: wrap_top_level_await returns its input unchanged whenever the input holds no bare
\* await outside an async def block (every await in an async def body, or the word only
\* inside a string literal); it wraps only when such a top-level await exists.
C5_UnchangedWithoutTopLevelAwait ==
    \A k \in 1..Len(calls) :
        (WrappedTopLevelAwait(k) /\ ~HasBareTopLevelAwait(texts[k])) => texts[k + 1] = texts[k]

(***************************************************************************)
(* extractReturnValue on sources that end in expressions, assignments,     *)
(* statements and comments                                                 *)
(***************************************************************************)

MaxReturnLines == 2

MaxReturnCalls == 2

ReturnLines ==
    { <<"x"," ","="," ","5">>,
      <<"z"," ","="," ","x"," ","+"," ","y">>,
      <<"x"," ","+"," ","y">>,
      <<"c","o","m","p","u","t","e","(",")">>,
      <<"r","e","s","u","l","t"," "," ","#"," ","R","e","t","u","r","n"," ","t","h","i","s"," ","v","a","l","u","e">>,
      <<"#"," ","d","o","n","e">>,
      <<"d","e","f"," ","c","o","m","p","u","t","e","(",")",":">>,
      <<" "," "," "," ","r","e","t","u","r","n"," ","4","2">>,
      <<"a"," ","=","="," ","b">>,
      <<"x"," ","!","="," ","y">>,
      <<"o","k"," ","="," ","a"," ","=","="," ","b">>,
      <<"t","o","t","a","l"," ","+","="," ","1">>,
      <<>> }

ReturnInputs == TextsOf(ReturnLines, MaxReturnLines)

InitReturn == InitWith(ReturnInputs)

SpecReturn == InitReturn /\ [][ExtractReturnValue(MaxReturnCalls)]_vars

IsCommentLine(line) == StartsWith(Trim(line), <<"#">>)

\* The index of the last line that is neither blank nor a comment; 0 when there is none.
LastMeaningfulLine(lines) ==
    LET meaningful == {i \in 1..Len(lines) : ~IsBlankLine(lines[i]) /\ ~IsCommentLine(lines[i])}
    IN  IF meaningful = {} THEN 0 ELSE Max(meaningful)

\* The code of a line: what stands before its trailing comment.
CodePart(line) ==
    LET hashes == {i \in 1..Len(line) : line[i] = "#"}
    IN  Trim(IF hashes = {} THEN line ELSE SubSeq(line, 1, Min(hashes) - 1))

\* Position p follows the word lambda.
AfterLambda(code, p) ==
    \E i \in 1..(p - 1) :
        OccursAt(code, <<"l","a","m","b","d","a">>, i) /\ ~IsWordAt(code, i - 1) /\ ~IsWordAt(code, i + 6)

\* The line is an assignment: it holds an = that is no part of ==, !=, <= or >= and is
\* not inside a lambda.
AssignsWithEquals(code) ==
    \E p \in 1..Len(code) :
        /\ code[p] = "="
        /\ ~(p > 1 /\ code[p - 1] \in {"=", "!", "<", ">"})
        /\ ~(p < Len(code) /\ code[p + 1] = "=")
        /\ ~AfterLambda(code, p)

ExtractedReturnValue(k) == Len(calls) >= k /\ calls[k] = "extractReturnValue"

\* C6: extract_return_value changes the code if and only if the last non-blank,
\* non-comment line neither begins with a statement keyword nor is an assignment (it
\* holds an = outside ==, !=, <=, >= and outside a lambda).
C6_ChangesIffLastLineIsExpression ==
    \A k \in 1..Len(calls) :
        ExtractedReturnValue(k) =>
            LET lines == LinesOf(texts[k])
                last == LastMeaningfulLine(lines)
            IN  (texts[k + 1] # texts[k]) <=>
                    /\ last # 0
                    /\ ~StartsWithStatementKeyword(CodePart(lines[last]))
                    /\ ~AssignsWithEquals(CodePart(lines[last]))

(***************************************************************************)
(* wrapExceptions, also over its own result                                *)
(***************************************************************************)

MaxExceptionLines == 2

MaxExceptionCalls == 2

ExceptionLines ==
    { <<"x"," ","="," ","1"," ","/"," ","0">>,
      <<"r","a","i","s","e"," ","V","a","l","u","e","E","r","r","o","r","(","\"","I","n","v","a","l","i","d"," ","v","a","l","u","e","\"",")">>,
      <<"d","e","f"," ","f","o","o","(",")",":">>,
      <<" "," "," "," ","r","a","i","s","e"," ","R","u","n","t","i","m","e","E","r","r","o","r","(","\"","S","o","m","e","t","h","i","n","g"," ","w","e","n","t"," ","w","r","o","n","g","\"",")">>,
      <<"f","o","o","(",")">>,
      <<"z"," ","="," ","x"," ","+"," ","y">>,
      <<" "," ">>,
      <<>> }

ExceptionInputs == TextsOf(ExceptionLines, MaxExceptionLines)

InitExceptions == InitWith(ExceptionInputs)

SpecExceptions == InitExceptions /\ [][WrapExceptions(MaxExceptionCalls)]_vars

WrappedExceptions(k) == Len(calls) >= k /\ calls[k] = "wrapExceptions"

TryHeaderLines == << <<"i","m","p","o","r","t"," ","t","r","a","c","e","b","a","c","k">>, <<"_","_","p","y","x","_","e","r","r","o","r","_","_"," ","="," ","N","o","n","e">>, <<"t","r","y",":">> >>

ExceptLine == <<"e","x","c","e","p","t"," ","E","x","c","e","p","t","i","o","n"," ","a","s"," ","_","_","p","y","x","_","e","x","c","_","_",":">>

\* The except body on one line, as C8 states it.
ExceptBodyOnOneLine ==
    <<" "," "," "," ","_","_","p","y","x","_","e","r","r","o","r","_","_"," ","="," ","{","'","t","y","p","e","'",":"," ","t","y","p","e","(","_","_","p","y","x","_","e","x","c","_","_",")",".","_","_","n","a","m","e","_","_",","," ","'","m","e","s","s","a","g","e","'",":"," ","s","t","r","(","_","_","p","y","x","_","e","x","c","_","_",")",","," ","'","t","r","a","c","e","b","a","c","k","'",":"," ","t","r","a","c","e","b","a","c","k",".","f","o","r","m","a","t","_","e","x","c","(",")","}">>

\* The except body as a dict literal over five lines.
ExceptBodyLines ==
    << <<" "," "," "," ","_","_","p","y","x","_","e","r","r","o","r","_","_"," ","="," ","{">>,
       <<" "," "," "," "," "," "," "," ","'","t","y","p","e","'",":"," ","t","y","p","e","(","_","_","p","y","x","_","e","x","c","_","_",")",".","_","_","n","a","m","e","_","_",",">>,
       <<" "," "," "," "," "," "," "," ","'","m","e","s","s","a","g","e","'",":"," ","s","t","r","(","_","_","p","y","x","_","e","x","c","_","_",")",",">>,
       <<" "," "," "," "," "," "," "," ","'","t","r","a","c","e","b","a","c","k","'",":"," ","t","r","a","c","e","b","a","c","k",".","f","o","r","m","a","t","_","e","x","c","(",")">>,
       <<" "," "," "," ","}">> >>

\* A line of the code as it stands in the try block: four spaces before it; an empty
\* line stays empty.
InTryBlock(line) == IF line = <<>> THEN <<>> ELSE <<" "," "," "," ">> \o line

\* C8 as stated: the output is the three header lines, the code indented by four spaces,
\* the except line and one line holding the whole __pyx_error__ dict.
C8_Original ==
    \A k \in 1..Len(calls) :
        WrappedExceptions(k) =>
            LET input == LinesOf(texts[k])
                body == [i \in 1..Len(input) |-> InTryBlock(input[i])]
            IN  LinesOf(texts[k + 1])
                    = TryHeaderLines \o body \o <<ExceptLine, ExceptBodyOnOneLine>>

\* C8 amended: the output is the three header lines; the lines of the code, each indented
\* by four spaces, an empty line left empty; the except line; the __pyx_error__ dict over
\* five lines (an opening line, one line per key indented eight spaces, a closing brace
\* indented four); and a final line break.
C8_Amended ==
    \A k \in 1..Len(calls) :
        WrappedExceptions(k) =>
            LET input == LinesOf(texts[k])
                output == LinesOf(texts[k + 1])
                n == Len(input)
            IN  /\ Len(output) = n + 10
                /\ SubSeq(output, 1, 3) = TryHeaderLines
                /\ \A i \in 1..n : output[3 + i] = InTryBlock(input[i])
                /\ output[n + 4] = ExceptLine
                /\ SubSeq(output, n + 5, n + 9) = ExceptBodyLines
                /\ output[n + 10] = <<>>

\* Code with an empty line next to a statement has been wrapped.
C8_Witness ==
    /\ WrappedExceptions(1)
    /\ \E i, j \in 1..Len(LinesOf(texts[1])) :
          LinesOf(texts[1])[i] = <<>> /\ LinesOf(texts[1])[j] = <<"x"," ","="," ","1"," ","/"," ","0">>

(***************************************************************************)
(* The passes composed, each on the result of the one before               *)
(***************************************************************************)

MaxPipelineCalls == 3

NumpySource == <<"i","m","p","o","r","t"," ","n","u","m","p","y"," ","a","s"," ","n","p","\n","r","e","s","u","l","t"," ","="," ","n","p",".","m","e","a","n","(","[","1",",","2",",","3","]",")","\n","r","e","s","u","l","t">>

CombinedSource ==
    <<"i","m","p","o","r","t"," ","n","u","m","p","y"," ","a","s"," ","n","p","\n","d","a","t","a"," ","="," ","a","w","a","i","t"," ","f","e","t","c","h","_","d","a","t","a","(",")","\n","r","e","s","u","l","t"," ","="," ","n","p",".","s","u","m","(","d","a","t","a",")","\n","p","r","i","n","t","(","r","e","s","u","l","t",")","\n","r","e","s","u","l","t">>

InputSource == <<"n","a","m","e"," ","="," ","i","n","p","u","t","(","\"","N","a","m","e",":"," ","\"",")","\n","n","a","m","e">>

PipelineInputs == {NumpySource, CombinedSource, InputSource}

InitPipeline == InitWith(PipelineInputs)

PipelineNext ==
    \/ RewriteImports(MaxPipelineCalls)
    \/ WrapTopLevelAwait(MaxPipelineCalls)
    \/ CapturePrint(MaxPipelineCalls)
    \/ ExtractReturnValue(MaxPipelineCalls)
    \/ MockInput(MaxPipelineCalls)
    \/ WrapExceptions(MaxPipelineCalls)
    \/ WrapAsync(MaxPipelineCalls)

SpecPipeline == InitPipeline /\ [][PipelineNext]_vars

\* rewriteImports, extractReturnValue and wrapAsync were the first three calls, on NumpySource.
NumpyPipelineDone ==
    /\ src = NumpySource
    /\ Len(calls) >= 3
    /\ SubSeq(calls, 1, 3) = <<"rewriteImports", "extractReturnValue", "wrapAsync">>

\* The lines wanted stand in the text in this order (other lines may stand between them).
ContainsInOrder(lines, wanted) ==
    \E at \in [1..Len(wanted) -> 1..Len(lines)] :
        /\ \A i \in 1..Len(wanted) : lines[at[i]] = wanted[i]
        /\ \A i \in 1..(Len(wanted) - 1) : at[i] < at[i + 1]

\* C9: rewrite_imports, then extract_return_value, then wrap_async on `import numpy as np` /
\* `result = np.mean([1,2,3])` / `result` yields text that begins with
\* `async def __pyx_main__():` and contains, in this order, the four-space-indented lines
\* `await micropip.install("numpy")`, `import numpy as np`, `result = np.mean([1,2,3])`,
\* `__pyx_result__ = result`.
C9_NumpyPipeline ==
    NumpyPipelineDone =>
        /\ StartsWith(texts[4], <<"a","s","y","n","c"," ","d","e","f"," ","_","_","p","y","x","_","m","a","i","n","_","_","(",")",":">>)
        /\ ContainsInOrder(LinesOf(texts[4]),
               << <<" "," "," "," ","a","w","a","i","t"," ","m","i","c","r","o","p","i","p",".","i","n","s","t","a","l","l","(","\"","n","u","m","p","y","\"",")">>,
                  <<" "," "," "," ","i","m","p","o","r","t"," ","n","u","m","p","y"," ","a","s"," ","n","p">>,
                  <<" "," "," "," ","r","e","s","u","l","t"," ","="," ","n","p",".","m","e","a","n","(","[","1",",","2",",","3","]",")">>,
                  <<" "," "," "," ","_","_","p","y","x","_","r","e","s","u","l","t","_","_"," ","="," ","r","e","s","u","l","t">> >>)

C9_Witness == NumpyPipelineDone /\ Len(LinesOf(texts[4])) = 6

(***************************************************************************)
(* core/ast/parser.ts: the Tokenizer                                       *)
(* Positions are 0-based as in the code; a scanner returns the position    *)
(* it stops at, and a token carries its type and the source text it spans. *)
(***************************************************************************)

\* this.source[pos]; "" stands for undefined (past either end)
CharAt(s, pos) == IF pos >= 0 /\ pos < Len(s) THEN s[pos + 1] ELSE ""

\* this.source.slice(from, to)
Slice(s, from, to) == SubSeq(s, from + 1, Min({to, Len(s)}))

\* Where a loop `while (pos < length && source[pos] in cs) pos++` leaves pos.
SkipWhile(s, pos, cs) ==
    LET stops == {i \in pos..(Len(s) - 1) : CharAt(s, i) \notin cs}
    IN  IF pos >= Len(s) THEN pos ELSE IF stops = {} THEN Len(s) ELSE Min(stops)

\* Where a loop `while (pos < length && source[pos] !== '\n') pos++` leaves pos.
SkipToNewline(s, pos) ==
    LET stops == {i \in pos..(Len(s) - 1) : CharAt(s, i) = "\n"}
    IN  IF pos >= Len(s) THEN pos ELSE IF stops = {} THEN Len(s) ELSE Min(stops)

isNameStart(ch) == ch \in Lower \cup Upper \cup {"_"}

isNameChar(ch) == isNameStart(ch) \/ ch \in Digits

isAlphaNum(ch) ==
    ch \in Digits \cup {"a", "b", "c", "d", "e", "f", "A", "B", "C", "D", "E", "F", "_"}

NameChars == {ch \in WordChars : isNameChar(ch)}

AlphaNumChars == {ch \in WordChars : isAlphaNum(ch)}

makeToken(type, value) == [type |-> type, value |-> value]

RECURSIVE skipWhitespace(_, _)
skipWhitespace(s, pos) ==
    IF CharAt(s, pos) \in {" ", "\t"} THEN skipWhitespace(s, pos + 1)
    ELSE IF CharAt(s, pos) = "\\" /\ CharAt(s, pos + 1) = "\n" THEN skipWhitespace(s, pos + 2)
    ELSE pos

\* The outcome of scanning a literal: where the scan stops and whether it threw.
ScanOk(pos) == [pos |-> pos, err |-> FALSE]
ScanError(pos) == [pos |-> pos, err |-> TRUE]

RECURSIVE readStringLoop(_, _, _, _)
\* The while loop of readString.
readStringLoop(s, pos, quote, triple) ==
    LET ch == CharAt(s, pos)
    IN  IF pos >= Len(s) THEN ScanOk(pos)
        ELSE IF ch = "\\" THEN readStringLoop(s, pos + 2, quote, triple)
        ELSE IF ch = quote
        THEN IF triple
             THEN IF CharAt(s, pos + 1) = quote /\ CharAt(s, pos + 2) = quote
                  THEN ScanOk(pos + 3)
                  ELSE readStringLoop(s, pos + 1, quote, triple)
             ELSE ScanOk(pos + 1)
        ELSE IF ch = "\n" /\ ~triple THEN ScanError(pos)
        ELSE readStringLoop(s, pos + 1, quote, triple)

\* readString from the opening quote at pos.
readString(s, pos) ==
    LET quote == CharAt(s, pos)
        triple == CharAt(s, pos + 1) = quote /\ CharAt(s, pos + 2) = quote
    IN  readStringLoop(s, IF triple THEN pos + 3 ELSE pos + 1, quote, triple)

RECURSIVE readRawStringLoop(_, _, _, _)
readRawStringLoop(s, pos, quote, triple) ==
    LET ch == CharAt(s, pos)
    IN  IF pos >= Len(s) THEN ScanOk(pos)
        ELSE IF ch = quote /\ triple /\ CharAt(s, pos + 1) = quote /\ CharAt(s, pos + 2) = quote
        THEN ScanOk(pos + 3)
        ELSE IF ch = quote /\ ~triple THEN ScanOk(pos + 1)
        ELSE readRawStringLoop(s, pos + 1, quote, triple)

\* readRawString from the r at pos.
readRawString(s, pos) ==
    LET quote == CharAt(s, pos + 1)
        triple == CharAt(s, pos + 2) = quote /\ CharAt(s, pos + 3) = quote
    IN  readRawStringLoop(s, IF triple THEN pos + 4 ELSE pos + 2, quote, triple)

\* readByteString from the b at pos.
readByteString(s, pos) == readString(s, pos + 1)

RECURSIVE readFStringLoop(_, _, _, _, _)
readFStringLoop(s, pos, quote, triple, braceDepth) ==
    LET ch == CharAt(s, pos)
    IN  IF pos >= Len(s) THEN ScanOk(pos)
        ELSE IF ch = "{"
        THEN IF CharAt(s, pos + 1) = "{"
             THEN readFStringLoop(s, pos + 2, quote, triple, braceDepth)
             ELSE readFStringLoop(s, pos + 1, quote, triple, braceDepth + 1)
        ELSE IF ch = "}"
        THEN IF CharAt(s, pos + 1) = "}"
             THEN readFStringLoop(s, pos + 2, quote, triple, braceDepth)
             ELSE readFStringLoop(s, pos + 1, quote, triple,
                                  IF braceDepth > 0 THEN braceDepth - 1 ELSE braceDepth)
        ELSE IF ch = quote /\ braceDepth = 0
        THEN IF triple
             THEN IF CharAt(s, pos + 1) = quote /\ CharAt(s, pos + 2) = quote
                  THEN ScanOk(pos + 3)
                  ELSE readFStringLoop(s, pos + 1, quote, triple, braceDepth)
             ELSE ScanOk(pos + 1)
        ELSE readFStringLoop(s, pos + 1, quote, triple, braceDepth)

\* readFStringContent from the opening quote at pos.
readFStringContent(s, pos) ==
    LET quote == CharAt(s, pos)
        triple == CharAt(s, pos + 1) = quote /\ CharAt(s, pos + 2) = quote
    IN  readFStringLoop(s, IF triple THEN pos + 3 ELSE pos + 1, quote, triple, 0)

\* readFString from the f at pos.
readFString(s, pos) == readFStringContent(s, pos + 1)

DigitsAndUnderscore == Digits \cup {"_"}

\* readNumber from pos: the position after the number.
readNumber(s, pos) ==
    LET next == CharAt(s, pos + 1)
        afterInt == SkipWhile(s, pos, DigitsAndUnderscore)
        afterPoint ==
            IF CharAt(s, afterInt) = "." /\ CharAt(s, afterInt + 1) # "."
            THEN SkipWhile(s, afterInt + 1, DigitsAndUnderscore) ELSE afterInt
        afterSign ==
            IF CharAt(s, afterPoint + 1) \in {"+", "-"} THEN afterPoint + 2 ELSE afterPoint + 1
        afterExponent ==
            IF CharAt(s, afterPoint) \in {"e", "E"}
            THEN SkipWhile(s, afterSign, DigitsAndUnderscore) ELSE afterPoint
    IN  IF CharAt(s, pos) = "0" /\ next \in {"x", "X", "o", "O", "b", "B"}
        THEN SkipWhile(s, pos + 2, AlphaNumChars)
        ELSE IF CharAt(s, afterExponent) \in {"j", "J"} THEN afterExponent + 1
        ELSE afterExponent

\* readName from pos: the position after the name.
readName(s, pos) == SkipWhile(s, pos, NameChars)

ThreeCharOperators == { <<".",".",".">>, <<"*","*","=">>, <<"/","/","=">>, <<">",">","=">>, <<"<","<","=">> }

TwoCharOperators ==
    { <<"=","=">>, <<"!","=">>, <<"<","=">>, <<">","=">>, <<"<","<">>, <<">",">">>, <<"*","*">>, <<"/","/">>, <<"-",">">>, <<"+","=">>,
      <<"-","=">>, <<"*","=">>, <<"/","=">>, <<"%","=">>, <<"&","=">>, <<"|","=">>, <<"^","=">>, <<"@","=">>, <<":","=">> }

\* readOperator from pos: the position after the operator.
readOperator(s, pos) ==
    IF Slice(s, pos, pos + 3) \in ThreeCharOperators THEN pos + 3
    ELSE IF Slice(s, pos, pos + 2) \in TwoCharOperators THEN pos + 2
    ELSE pos + 1

RECURSIVE IndentationScan(_, _, _)
\* The while loop of handleIndentation: the position and the indent it ends with.
IndentationScan(s, pos, indent) ==
    LET ch == CharAt(s, pos)
    IN  IF pos >= Len(s) THEN [pos |-> pos, indent |-> indent]
        ELSE IF ch = " " THEN IndentationScan(s, pos + 1, indent + 1)
        ELSE IF ch = "\t" THEN IndentationScan(s, pos + 1, (indent \div 8) * 8 + 8)
        ELSE IF ch = "\n" THEN IndentationScan(s, pos + 1, 0)
        ELSE IF ch = "\r"
        THEN IndentationScan(s, IF CharAt(s, pos + 1) = "\n" THEN pos + 2 ELSE pos + 1, 0)
        ELSE IF ch = "#" THEN IndentationScan(s, SkipToNewline(s, pos), indent)
        ELSE [pos |-> pos, indent |-> indent]

Top(stack) == stack[Len(stack)]

Pop(stack) == SubSeq(stack, 1, Len(stack) - 1)

\* The stack after `while (length > 1 && top > indent) pop()`.
PopAbove(stack, indent) ==
    LET keep == {n \in 1..Len(stack) : n = 1 \/ \A m \in 2..n : stack[m] <= indent}
    IN  SubSeq(stack, 1, Max(keep))

\* A token returned, the tokenizer's fields after it, and no error.
Returned(tok, st) == [tok |-> tok, st |-> st, err |-> FALSE]

\* A SyntaxError thrown with the tokenizer's fields as st.
Thrown(st) == [tok |-> makeToken("ERRORTOKEN", <<>>), st |-> st, err |-> TRUE]

\* The token a literal scanner yields for the text from `from` to where the scan stopped.
Scanned(type, s, from, scan, st) ==
    IF scan.err THEN Thrown([st EXCEPT !.pos = scan.pos])
    ELSE Returned(makeToken(type, Slice(s, from, scan.pos)), [st EXCEPT !.pos = scan.pos])

RECURSIVE nextToken(_, _)
RECURSIVE handleIndentation(_, _)

\* st holds the fields pos, indentStack, pendingTokens, atLineStart, and seen: the indent
\* of the last line handleIndentation compared with the stack, with the stack before and after.
nextToken(s, st) ==
    IF st.atLineStart THEN handleIndentation(s, st)
    ELSE LET pos == skipWhitespace(s, st.pos)
             at == [st EXCEPT !.pos = pos]
             ch == CharAt(s, pos)
             ch1 == CharAt(s, pos + 1)
             ch2 == CharAt(s, pos + 2)
         IN  IF pos >= Len(s)
             THEN IF Len(st.indentStack) > 1
                  THEN Returned(makeToken("DEDENT", <<>>), [at EXCEPT !.indentStack = Pop(@)])
                  ELSE Returned(makeToken("ENDMARKER", <<>>), at)
             ELSE IF ch = "#" THEN nextToken(s, [at EXCEPT !.pos = SkipToNewline(s, pos)])
             ELSE IF ch = "\n"
             THEN Returned(makeToken("NEWLINE", <<"\n">>),
                           [at EXCEPT !.pos = pos + 1, !.atLineStart = TRUE])
             ELSE IF ch = "\r"
             THEN Returned(makeToken("NEWLINE", <<"\n">>),
                           [at EXCEPT !.pos = IF ch1 = "\n" THEN pos + 2 ELSE pos + 1,
                                      !.atLineStart = TRUE])
             ELSE IF ch \in Quotes THEN Scanned("STRING", s, pos, readString(s, pos), at)
             ELSE IF ch \in {"f", "F"} /\ ch1 \in Quotes
             THEN Scanned("STRING", s, pos, readFString(s, pos), at)
             ELSE IF ch \in {"r", "R"} /\ ch1 \in Quotes
             THEN Scanned("STRING", s, pos, readRawString(s, pos), at)
             ELSE IF ch \in {"b", "B"} /\ ch1 \in Quotes
             THEN Scanned("STRING", s, pos, readByteString(s, pos), at)
             ELSE IF ch \in {"r", "R"} /\ ch1 \in {"f", "F"} /\ ch2 \in Quotes
             THEN Scanned("STRING", s, pos + 1, readFStringContent(s, pos + 2), at)
             ELSE IF ch \in {"f", "F"} /\ ch1 \in {"r", "R"} /\ ch2 \in Quotes
             THEN Scanned("STRING", s, pos + 1, readFStringContent(s, pos + 2), at)
             ELSE IF ch \in Digits THEN Scanned("NUMBER", s, pos, ScanOk(readNumber(s, pos)), at)
             ELSE IF ch = "." /\ ch1 \in Digits
             THEN Scanned("NUMBER", s, pos, ScanOk(readNumber(s, pos)), at)
             ELSE IF isNameStart(ch) THEN Scanned("NAME", s, pos, ScanOk(readName(s, pos)), at)
             ELSE Scanned("OP", s, pos, ScanOk(readOperator(s, pos)), at)

handleIndentation(s, st) ==
    LET scan == IndentationScan(s, st.pos, 0)
        indent == scan.indent
        at == [st EXCEPT !.pos = scan.pos, !.atLineStart = FALSE]
        currentIndent == Top(st.indentStack)
        popped == PopAbove(st.indentStack, indent)
        dedents == [n \in 1..(Len(st.indentStack) - Len(popped)) |-> makeToken("DEDENT", <<>>)]
        pending == st.pendingTokens \o dedents
        saw(after) == [indent |-> indent, before |-> st.indentStack, after |-> after]
    IN  IF scan.pos >= Len(s)
        THEN IF Len(st.indentStack) > 1
             THEN Returned(makeToken("DEDENT", <<>>), [at EXCEPT !.indentStack = Pop(@)])
             ELSE Returned(makeToken("ENDMARKER", <<>>), at)
        ELSE IF indent > currentIndent
        THEN Returned(makeToken("INDENT", <<>>),
                      [at EXCEPT !.indentStack = Append(@, indent),
                                 !.seen = saw(Append(st.indentStack, indent))])
        ELSE IF indent < currentIndent
        THEN Returned(Head(pending),
                      [at EXCEPT !.indentStack = popped, !.pendingTokens = Tail(pending),
                                 !.seen = saw(popped)])
        ELSE nextToken(s, [at EXCEPT !.seen = saw(st.indentStack)])

\* The tokenizer's fields as one record.
TokenizerFields ==
    [pos |-> tkPos, indentStack |-> indentStack, pendingTokens |-> pendingTokens,
     atLineStart |-> atLineStart, seen |-> lastIndent]

\* A next() that never looks at the pending tokens.
nextTokenOnly == nextToken(tkSource, TokenizerFields)

\* Tokenizer.next(): the first pending token, or nextToken().
next ==
    IF Len(pendingTokens) > 0
    THEN Returned(Head(pendingTokens), [TokenizerFields EXCEPT !.pendingTokens = Tail(@)])
    ELSE nextToken(tkSource, TokenizerFields)

\* One call of Tokenizer.next() by the parser, which stops at ENDMARKER or at a SyntaxError.
TokenizerNext ==
    /\ tkPhase = "lex"
    /\ LET r == next
       IN  /\ tkPos' = r.st.pos
           /\ indentStack' = r.st.indentStack
           /\ pendingTokens' = r.st.pendingTokens
           /\ atLineStart' = r.st.atLineStart
           /\ lastIndent' = r.st.seen
           /\ emitted' = IF r.err THEN emitted ELSE Append(emitted, r.tok)
           /\ tkPhase' = IF r.err THEN "error"
                         ELSE IF r.tok.type = "ENDMARKER" THEN "done" ELSE "lex"
    /\ UNCHANGED <<tkSource, xformVars, astVars, venvVars, serviceVars>>

\* new Tokenizer(source)
InitTokenizerWith(inputs) ==
    /\ src \in inputs
    /\ calls = <<>>
    /\ texts = <<src>>
    /\ report = NoReport
    /\ tkSource = src
    /\ tkPos = 0
    /\ indentStack = <<0>>
    /\ pendingTokens = <<>>
    /\ atLineStart = TRUE
    /\ tkPhase = "lex"
    /\ emitted = <<>>
    /\ lastIndent = NoIndent
    /\ AstIdle
    /\ VenvIdle
    /\ ServiceIdle

(***************************************************************************)
(* The tokenizer on sources with nested, dedented and mis-dedented lines   *)
(***************************************************************************)

MaxTokenLines == 3

TokenLines ==
    { <<"i","f"," ","x",":">>,
      <<" "," "," "," ","a"," ","="," ","1">>,
      <<" "," "," "," "," "," "," "," ","b">>,
      <<" "," ","c">>,
      <<"\t","d">>,
      <<"#"," ","n","o","t","e">>,
      <<"s"," ","="," ","'","h","i">>,
      <<>> }

TokenInputs == TextsOf(TokenLines, MaxTokenLines)

InitTokenizer == InitTokenizerWith(TokenInputs)

SpecTokenizer == InitTokenizer /\ [][TokenizerNext]_vars

\* The last line handleIndentation compared with the stack was indented less than the top
\* of the stack, and after the pops the top of the stack is not the line's indentation.
InconsistentDedent ==
    /\ lastIndent.indent < Top(lastIndent.before)
    /\ lastIndent.after = PopAbove(lastIndent.before, lastIndent.indent)
    /\ Top(lastIndent.after) # lastIndent.indent

\* C10: when a line's indentation is smaller than the top of the indent stack and, after
\* popping every larger level (one Dedent per pop), the top of the stack does not equal the
\* line's indentation, tokenizing reports an error instead of continuing.
C10_InconsistentDedentIsError == InconsistentDedent => tkPhase = "error"


\* How many of the tokens have the type.
TokensOfType(tokens, type) == Cardinality({n \in 1..Len(tokens) : tokens[n].type = type})

\* The indentation levels the emitted tokens leave open: Indents less Dedents.
OpenLevels(tokens) == TokensOfType(tokens, "INDENT") - TokensOfType(tokens, "DEDENT")

\* C29: Indent and Dedent tokens are balanced: every prefix of the token stream has at
\* least as many Indent as Dedent tokens, the whole stream of a source that tokenizes
\* without error has equally many, and EndOfInput is emitted only after one Dedent has
\* been emitted for each indentation level still open above zero.
C29_IndentsAndDedentsBalance ==
    /\ \A n \in 0..Len(emitted) : OpenLevels(SubSeq(emitted, 1, n)) >= 0
    /\ OpenLevels(emitted) = (Len(indentStack) - 1) + Len(pendingTokens)
    /\ \A n \in 1..Len(emitted) :
           emitted[n].type = "ENDMARKER" => OpenLevels(SubSeq(emitted, 1, n - 1)) = 0
    /\ tkPhase = "done" =>
           /\ OpenLevels(emitted) = 0
           /\ indentStack = <<0>>
           /\ pendingTokens = <<>>

\* A source that ends two levels deep has been tokenized: the stream ends with two Dedents
\* and EndOfInput.
C29_Witness ==
    /\ tkPhase = "done"
    /\ Len(emitted) >= 5
    /\ emitted[Len(emitted) - 2].type = "DEDENT"
    /\ emitted[Len(emitted) - 1].type = "DEDENT"
    /\ emitted[Len(emitted)].type = "ENDMARKER"
    /\ TokensOfType(emitted, "INDENT") = 2
(***************************************************************************)
(* The tokenizer on sources with closed and unclosed string literals       *)
(***************************************************************************)

MaxStringLines == 2

StringLines ==
    { <<"s"," ","="," ","'","h","i">>,
      <<"s"," ","="," ","'","h","i","'">>,
      <<"t"," ","="," ","\"","o","k">>,
      <<"u"," ","="," ","'","'","'","a">>,
      <<"b","'","'","'">>,
      <<"w"," ","="," ","r","'","r","a","w">>,
      <<"#"," ","i","t","'","s"," ","f","i","n","e">>,
      <<"x"," ","="," ","1">>,
      <<>> }

StringInputs == TextsOf(StringLines, MaxStringLines)

InitStrings == InitTokenizerWith(StringInputs)

SpecStrings == InitStrings /\ [][TokenizerNext]_vars

\* The number of places of the line where a triple quote starts.
TripleQuotesIn(line) ==
    Cardinality({i \in 1..Len(line) : \E q \in Quotes : OccursAt(line, <<q, q, q>>, i)})

\* Position p of the line opens a single-line string literal that the line does not close:
\* a quote on a line without triple quotes that is not the text of a comment or of a
\* string opened before it, and without the same quote after it on the line.
OpensUnclosedString(line, p) ==
    /\ p \in 1..Len(line)
    /\ line[p] \in Quotes
    /\ TripleQuotesIn(line) = 0
    /\ ~InComment(line, p)
    /\ \A q \in Quotes : Cardinality({i \in 1..(p - 1) : line[i] = q}) % 2 = 0
    /\ \A i \in (p + 1)..Len(line) : line[i] # line[p]

OutsideTripleQuoted(lines, n) ==
    LET opened == {m \in 1..(n - 1) : TripleQuotesIn(lines[m]) % 2 = 1}
    IN  Cardinality(opened) % 2 = 0

\* The source holds a single-line string literal that is not closed before its line ends.
HasUnclosedString(text) ==
    LET lines == LinesOf(text)
    IN  \E n \in 1..Len(lines) :
            /\ OutsideTripleQuoted(lines, n)
            /\ \E p \in 1..Len(lines[n]) : OpensUnclosedString(lines[n], p)

\* C11: a source with a single-line string literal that is not closed before its line ends,
\* whether the line ends with a newline or with the end of the input, fails with the
\* SyntaxError and yields no token stream: tokenizing never completes.
C11_UnclosedStringFails == HasUnclosedString(tkSource) => tkPhase # "done"


(***************************************************************************)
(* Parser (src/core/ast/parser.ts): the syntax tree                        *)
(*                                                                         *)
(* A node is a record of its type and its fields in insertion order, which *)
(* is the order Object.keys gives. A field holds one node ("node"), a list *)
(* of nodes ("list"), one primitive ("prim": text) or a list of primitives *)
(* ("prims"). NoNode stands where the code has undefined or null.          *)
(***************************************************************************)

NodeField(key, node) == [key |-> key, kind |-> "node", items |-> <<node>>, prim |-> <<>>]

ListField(key, nodes) == [key |-> key, kind |-> "list", items |-> nodes, prim |-> <<>>]

PrimField(key, text) == [key |-> key, kind |-> "prim", items |-> <<>>, prim |-> text]

PrimsField(key, names) == [key |-> key, kind |-> "prims", items |-> <<>>, prim |-> names]

Node(type, fields) == [type |-> type, fields |-> fields]

\* The value of the field `key` of a node: its nodes, or its primitive.
FieldOf(node, key) ==
    LET at == {n \in 1..Len(node.fields) : node.fields[n].key = key}
    IN  node.fields[CHOOSE n \in at : TRUE]

HasField(node, key) == \E n \in 1..Len(node.fields) : node.fields[n].key = key

Items(node, key) == FieldOf(node, key).items

Child(node, key) == FieldOf(node, key).items[1]

Prim(node, key) == FieldOf(node, key).prim

NameNode(id) == Node("Name", <<PrimField("id", id)>>)

ConstantNode(value) == Node("Constant", <<PrimField("value", value)>>)

BinOpNode(left, op, right) ==
    Node("BinOp", <<NodeField("left", left), PrimField("op", <<op>>), NodeField("right", right)>>)

UnaryOpNode(op, operand) == Node("UnaryOp", <<PrimField("op", <<op>>), NodeField("operand", operand)>>)

(***************************************************************************)
(* The parser reads the tokens the tokenizer returned. A parsing function  *)
(* takes the tokens and the index of currentToken, and gives the node (or  *)
(* nodes) it built and the index of currentToken afterwards. out is "ok",  *)
(* "throw" for a SyntaxError, or "outside" where the code takes a branch   *)
(* this model does not follow.                                             *)
(***************************************************************************)

Ok(node, i) == [node |-> node, nodes |-> <<>>, i |-> i, out |-> "ok"]

OkList(nodes, i) == [node |-> NoNode, nodes |-> nodes, i |-> i, out |-> "ok"]

Throw(i) == [node |-> NoNode, nodes |-> <<>>, i |-> i, out |-> "throw"]

Outside(i) == [node |-> NoNode, nodes |-> <<>>, i |-> i, out |-> "outside"]

\* Parser.currentToken; Tokenizer.next() keeps returning ENDMARKER at the end
Cur(toks, i) == IF i <= Len(toks) THEN toks[i] ELSE toks[Len(toks)]

\* Tokenizer.peek() seen from the parser: the token after currentToken
Peek(toks, i) == Cur(toks, i + 1)

match(toks, i, type, value) == Cur(toks, i).type = type /\ Cur(toks, i).value = value

matchType(toks, i, type) == Cur(toks, i).type = type

matchKeyword(toks, i, keyword) == match(toks, i, "NAME", keyword)

matchOp(toks, i, values) == Cur(toks, i).type = "OP" /\ Cur(toks, i).value \in values

\* this.<fn>(): a call from one parsing function to another, by the callee's name
RECURSIVE call(_, _, _)


\* the loop of a bracketed, comma-separated list: after an element, `,` then
\* either the closing bracket or another element
RECURSIVE ElementsLoop(_, _, _, _)
ElementsLoop(toks, i, close, elts) ==
    IF match(toks, i, "OP", <<",">>)
    THEN IF match(toks, i + 1, "OP", close)
         THEN OkList(elts, i + 1)
         ELSE LET e == call("parseExpr", toks, i + 1)
              IN  IF e.out # "ok" THEN e
                  ELSE ElementsLoop(toks, e.i, close, Append(elts, e.node))
    ELSE OkList(elts, i)

\* expect('OP', value) after a list
ExpectClose(toks, r, close, type) ==
    IF r.out # "ok" THEN r
    ELSE IF match(toks, r.i, "OP", close)
         THEN Ok(Node(type, <<ListField("elts", r.nodes)>>), r.i + 1)
         ELSE Throw(r.i)

NotModelledKeywords == { <<"l","a","m","b","d","a">>, <<"y","i","e","l","d">> }

NotModelledOps == { <<"{">>, <<"*">>, <<".",".",".">> }

SpecialConstants == { <<"T","r","u","e">>, <<"F","a","l","s","e">>, <<"N","o","n","e">> }

parsePrimary(toks, i) ==
    IF matchType(toks, i, "NAME") /\ Cur(toks, i).value \in NotModelledKeywords THEN Outside(i)
    ELSE IF match(toks, i, "OP", <<"(">>)
    THEN IF match(toks, i + 1, "OP", <<")">>)
         THEN Ok(Node("Tuple", <<ListField("elts", <<>>)>>), i + 2)
         ELSE LET first == call("parseExpr", toks, i + 1)
              IN  IF first.out # "ok" THEN first
                  ELSE IF matchKeyword(toks, first.i, <<"f","o","r">>) \/ matchKeyword(toks, first.i, <<"a","s","y","n","c">>)
                  THEN Outside(first.i)
                  ELSE IF match(toks, first.i, "OP", <<",">>)
                  THEN ExpectClose(toks, ElementsLoop(toks, first.i, <<")">>, <<first.node>>), <<")">>, "Tuple")
                  ELSE IF match(toks, first.i, "OP", <<")">>)
                  THEN Ok(first.node, first.i + 1)
                  ELSE Throw(first.i)
    ELSE IF match(toks, i, "OP", <<"[">>)
    THEN IF match(toks, i + 1, "OP", <<"]">>)
         THEN Ok(Node("List", <<ListField("elts", <<>>)>>), i + 2)
         ELSE LET first == call("parseExpr", toks, i + 1)
              IN  IF first.out # "ok" THEN first
                  ELSE IF matchKeyword(toks, first.i, <<"f","o","r">>) \/ matchKeyword(toks, first.i, <<"a","s","y","n","c">>)
                  THEN Outside(first.i)
                  ELSE ExpectClose(toks, ElementsLoop(toks, first.i, <<"]">>, <<first.node>>), <<"]">>, "List")
    ELSE IF matchOp(toks, i, NotModelledOps) THEN Outside(i)
    ELSE IF matchType(toks, i, "NAME")
    THEN LET name == Cur(toks, i).value
         IN  IF name \in SpecialConstants THEN Ok(ConstantNode(name), i + 1)
             ELSE Ok(NameNode(name), i + 1)
    ELSE IF matchType(toks, i, "NUMBER") THEN Ok(ConstantNode(Cur(toks, i).value), i + 1)
    ELSE IF matchType(toks, i, "STRING") THEN Outside(i)
    ELSE Throw(i)

\* the loop of parseCall over positional arguments
RECURSIVE parseCallLoop(_, _, _)
parseCallLoop(toks, i, args) ==
    IF match(toks, i, "OP", <<")">>) THEN OkList(args, i)
    ELSE LET afterComma == IF args # <<>> THEN i + 1 ELSE i
         IN  IF args # <<>> /\ ~match(toks, i, "OP", <<",">>) THEN Throw(i)
             ELSE IF args # <<>> /\ match(toks, afterComma, "OP", <<")">>) THEN OkList(args, afterComma)
             ELSE IF matchOp(toks, afterComma, { <<"*","*">>, <<"*">> }) THEN Outside(afterComma)
             ELSE IF matchType(toks, afterComma, "NAME") /\ Peek(toks, afterComma).value = <<"=">>
             THEN Outside(afterComma)
             ELSE LET e == call("parseExpr", toks, afterComma)
                  IN  IF e.out # "ok" THEN e
                      ELSE parseCallLoop(toks, e.i, Append(args, e.node))

parseCall(toks, i, func) ==
    LET r == parseCallLoop(toks, i + 1, <<>>)
    IN  IF r.out # "ok" THEN r
        ELSE Ok(Node("Call", <<NodeField("func", func), ListField("args", r.nodes),
                               ListField("keywords", <<>>)>>), r.i + 1)

\* parseSubscriptSlice with parseSliceItem, for a single index
parseSubscript(toks, i, value) ==
    IF match(toks, i + 1, "OP", <<":">>) THEN Outside(i + 1)
    ELSE LET lower == call("parseExpr", toks, i + 1)
         IN  IF lower.out # "ok" THEN lower
             ELSE IF matchOp(toks, lower.i, { <<":">>, <<",">> }) THEN Outside(lower.i)
             ELSE IF match(toks, lower.i, "OP", <<"]">>)
             THEN Ok(Node("Subscript", <<NodeField("value", value), NodeField("slice", lower.node)>>),
                     lower.i + 1)
             ELSE Throw(lower.i)

\* the trailer loop of parseAtom
RECURSIVE Trailers(_, _)
Trailers(toks, r) ==
    IF r.out # "ok" THEN r
    ELSE IF match(toks, r.i, "OP", <<"(">>) THEN Trailers(toks, parseCall(toks, r.i, r.node))
    ELSE IF match(toks, r.i, "OP", <<"[">>) THEN Trailers(toks, parseSubscript(toks, r.i, r.node))
    ELSE IF match(toks, r.i, "OP", <<".">>)
    THEN IF matchType(toks, r.i + 1, "NAME")
         THEN Trailers(toks, Ok(Node("Attribute", <<NodeField("value", r.node),
                                                     PrimField("attr", Cur(toks, r.i + 1).value)>>),
                                r.i + 2))
         ELSE Throw(r.i + 1)
    ELSE r

parseAtom(toks, i) == Trailers(toks, call("parsePrimary", toks, i))

parseAwait(toks, i) ==
    IF matchKeyword(toks, i, <<"a","w","a","i","t">>)
    THEN LET value == call("parsePrimary", toks, i + 1)
         IN  IF value.out # "ok" THEN value
             ELSE Ok(Node("Await", <<NodeField("value", value.node)>>), value.i)
    ELSE call("parseAtom", toks, i)

parsePower(toks, i) ==
    LET left == call("parseAwait", toks, i)
    IN  IF left.out # "ok" THEN left
        ELSE IF match(toks, left.i, "OP", <<"*","*">>)
        THEN LET right == call("parseFactor", toks, left.i + 1)
             IN  IF right.out # "ok" THEN right
                 ELSE Ok(BinOpNode(left.node, "Pow", right.node), right.i)
        ELSE left

UnaryOps == { <<"+">>, <<"-">>, <<"~">> }

UnaryOpName(value) == IF value = <<"+">> THEN "UAdd" ELSE IF value = <<"-">> THEN "USub" ELSE "Invert"

parseFactor(toks, i) ==
    IF matchOp(toks, i, UnaryOps)
    THEN LET operand == call("parseFactor", toks, i + 1)
         IN  IF operand.out # "ok" THEN operand
             ELSE Ok(UnaryOpNode(UnaryOpName(Cur(toks, i).value), operand.node), operand.i)
    ELSE call("parsePower", toks, i)

\* The binary levels below parseComparison: each is a loop
\*   left = operand(); while (match one of the level's operators) { left = BinOp(left, op, operand()) }
BinaryLevels == <<"BitOr", "BitXor", "BitAnd", "Shift", "Arith", "Term">>

LevelOps(level) ==
    CASE level = "BitOr" -> { <<"|">> }
      [] level = "BitXor" -> { <<"^">> }
      [] level = "BitAnd" -> { <<"&">> }
      [] level = "Shift" -> { <<"<","<">>, <<">",">">> }
      [] level = "Arith" -> { <<"+">>, <<"-">> }
      [] level = "Term" -> { <<"*">>, <<"/">>, <<"/","/">>, <<"%">>, <<"@">> }

OperatorType(value) ==
    CASE value = <<"|">> -> "BitOr"
      [] value = <<"^">> -> "BitXor"
      [] value = <<"&">> -> "BitAnd"
      [] value = <<"<","<">> -> "LShift"
      [] value = <<">",">">> -> "RShift"
      [] value = <<"+">> -> "Add"
      [] value = <<"-">> -> "Sub"
      [] value = <<"*">> -> "Mult"
      [] value = <<"/">> -> "Div"
      [] value = <<"/","/">> -> "FloorDiv"
      [] value = <<"%">> -> "Mod"
      [] value = <<"@">> -> "MatMult"

RECURSIVE parseBinary(_, _, _)
RECURSIVE BinaryLoop(_, _, _)

\* the operand of a level: the next tighter level, parseFactor below parseTerm
Operand(level, toks, i) ==
    CASE level = "BitOr" -> parseBinary("BitXor", toks, i)
      [] level = "BitXor" -> parseBinary("BitAnd", toks, i)
      [] level = "BitAnd" -> parseBinary("Shift", toks, i)
      [] level = "Shift" -> parseBinary("Arith", toks, i)
      [] level = "Arith" -> parseBinary("Term", toks, i)
      [] level = "Term" -> call("parseFactor", toks, i)

BinaryLoop(level, toks, left) ==
    IF left.out # "ok" THEN left
    ELSE IF matchOp(toks, left.i, LevelOps(level))
    THEN LET right == Operand(level, toks, left.i + 1)
         IN  IF right.out # "ok" THEN right
             ELSE BinaryLoop(level, toks,
                             Ok(BinOpNode(left.node, OperatorType(Cur(toks, left.i).value), right.node),
                                right.i))
    ELSE left

parseBinary(level, toks, i) == BinaryLoop(level, toks, Operand(level, toks, i))

parseTerm(toks, i) == parseBinary("Term", toks, i)

parseArith(toks, i) == parseBinary("Arith", toks, i)

parseShift(toks, i) == parseBinary("Shift", toks, i)

parseBitAnd(toks, i) == parseBinary("BitAnd", toks, i)

parseBitXor(toks, i) == parseBinary("BitXor", toks, i)

parseBitOr(toks, i) == parseBinary("BitOr", toks, i)

\* One turn of parseComparison's loop at currentToken: the operator it reads
\* (op "" for none) and how many tokens the operator took; `not` without `in`
\* is the SyntaxError of expect('NAME', 'in').
CompareOperator(toks, i) ==
    LET Op(op, width) == [op |-> op, width |-> width, throws |-> FALSE]
    IN  IF match(toks, i, "OP", <<"<">>)
        THEN IF match(toks, i + 1, "OP", <<"=">>) THEN Op("LtE", 2) ELSE Op("Lt", 1)
        ELSE IF match(toks, i, "OP", <<">">>)
        THEN IF match(toks, i + 1, "OP", <<"=">>) THEN Op("GtE", 2) ELSE Op("Gt", 1)
        ELSE IF match(toks, i, "OP", <<"=","=">>) THEN Op("Eq", 1)
        ELSE IF match(toks, i, "OP", <<"!","=">>) THEN Op("NotEq", 1)
        ELSE IF match(toks, i, "OP", <<"<","=">>) THEN Op("LtE", 1)
        ELSE IF match(toks, i, "OP", <<">","=">>) THEN Op("GtE", 1)
        ELSE IF matchKeyword(toks, i, <<"i","n">>) THEN Op("In", 1)
        ELSE IF matchKeyword(toks, i, <<"n","o","t">>)
        THEN IF matchKeyword(toks, i + 1, <<"i","n">>) THEN Op("NotIn", 2)
             ELSE [op |-> "", width |-> 1, throws |-> TRUE]
        ELSE IF matchKeyword(toks, i, <<"i","s">>)
        THEN IF matchKeyword(toks, i + 1, <<"n","o","t">>) THEN Op("IsNot", 2) ELSE Op("Is", 1)
        ELSE Op("", 0)

CompareNode(left, ops, comparators) ==
    Node("Compare", <<NodeField("left", left), PrimsField("ops", ops),
                      ListField("comparators", comparators)>>)

\* parseComparison building a Compare node whenever the loop ends
CompareResultAlways(left, ops, comparators, i) == Ok(CompareNode(left, ops, comparators), i)

\* The result of parseComparison once its loop has ended.
CompareResult(left, ops, comparators, i) ==
    IF Len(ops) = 0 THEN Ok(left, i) ELSE Ok(CompareNode(left, ops, comparators), i)

RECURSIVE ComparisonLoop(_, _, _, _, _)
ComparisonLoop(toks, i, left, ops, comparators) ==
    LET o == CompareOperator(toks, i)
    IN  IF o.throws THEN Throw(i + o.width)
        ELSE IF o.op = "" THEN CompareResult(left, ops, comparators, i)
        ELSE LET right == call("parseBitOr", toks, i + o.width)
             IN  IF right.out # "ok" THEN right
                 ELSE ComparisonLoop(toks, right.i, left, Append(ops, o.op),
                                     Append(comparators, right.node))

parseComparison(toks, i) ==
    LET left == call("parseBitOr", toks, i)
    IN  IF left.out # "ok" THEN left
        ELSE ComparisonLoop(toks, left.i, left.node, <<>>, <<>>)

parseNot(toks, i) ==
    IF matchKeyword(toks, i, <<"n","o","t">>)
    THEN LET operand == call("parseNot", toks, i + 1)
         IN  IF operand.out # "ok" THEN operand
             ELSE Ok(UnaryOpNode("Not", operand.node), operand.i)
    ELSE call("parseComparison", toks, i)

\* the loops of parseAnd and parseOr: values.push(operand()) while the keyword follows
RECURSIVE BoolLoop(_, _, _, _)
BoolLoop(keyword, toks, i, values) ==
    IF matchKeyword(toks, i, keyword)
    THEN LET value == IF keyword = <<"a","n","d">> THEN call("parseNot", toks, i + 1) ELSE call("parseAnd", toks, i + 1)
         IN  IF value.out # "ok" THEN value
             ELSE BoolLoop(keyword, toks, value.i, Append(values, value.node))
    ELSE Ok(Node("BoolOp", <<PrimField("op", <<IF keyword = <<"a","n","d">> THEN "And" ELSE "Or">>),
                             ListField("values", values)>>), i)

parseAnd(toks, i) ==
    LET left == call("parseNot", toks, i)
    IN  IF left.out # "ok" THEN left
        ELSE IF matchKeyword(toks, left.i, <<"a","n","d">>)
        THEN BoolLoop(<<"a","n","d">>, toks, left.i, <<left.node>>)
        ELSE left

parseOr(toks, i) ==
    LET left == call("parseAnd", toks, i)
    IN  IF left.out # "ok" THEN left
        ELSE IF matchKeyword(toks, left.i, <<"o","r">>)
        THEN BoolLoop(<<"o","r">>, toks, left.i, <<left.node>>)
        ELSE left

parseTernary(toks, i) ==
    LET expr == call("parseOr", toks, i)
    IN  IF expr.out # "ok" THEN expr
        ELSE IF matchKeyword(toks, expr.i, <<"i","f">>)
        THEN LET test == call("parseOr", toks, expr.i + 1)
             IN  IF test.out # "ok" THEN test
                 ELSE IF ~matchKeyword(toks, test.i, <<"e","l","s","e">>) THEN Throw(test.i)
                 ELSE LET orelse == call("parseTernary", toks, test.i + 1)
                      IN  IF orelse.out # "ok" THEN orelse
                          ELSE Ok(Node("IfExp", <<NodeField("test", test.node),
                                                  NodeField("body", expr.node),
                                                  NodeField("orelse", orelse.node)>>), orelse.i)
        ELSE expr

parseNamedExpr(toks, i) ==
    LET expr == call("parseTernary", toks, i)
    IN  IF expr.out # "ok" THEN expr
        ELSE IF match(toks, expr.i, "OP", <<":","=">>)
        THEN LET value == call("parseExpr", toks, expr.i + 1)
             IN  IF value.out # "ok" THEN value
                 ELSE Ok(Node("NamedExpr", <<NodeField("target", expr.node),
                                             NodeField("value", value.node)>>), value.i)
        ELSE expr

parseExpr(toks, i) == call("parseNamedExpr", toks, i)

(***************************************************************************)
(* Statements                                                              *)
(***************************************************************************)

ArgNode(argName, annotation) ==
    Node("arg", <<PrimField("arg", argName), NodeField("annotation", annotation)>>)

\* `: annotation` after a parameter name, if there is one
Annotation(toks, i) ==
    IF match(toks, i, "OP", <<":">>) THEN call("parseExpr", toks, i + 1) ELSE Ok(NoNode, i)

NoArguments ==
    [args |-> <<>>, defaults |-> <<>>, kwonlyargs |-> <<>>, kwDefaults |-> <<>>,
     vararg |-> NoNode, kwarg |-> NoNode, seenStar |-> FALSE]

ArgumentsNode(st) ==
    Node("arguments", <<ListField("posonlyargs", <<>>), ListField("args", st.args),
                        NodeField("vararg", st.vararg), ListField("kwonlyargs", st.kwonlyargs),
                        ListField("kw_defaults", st.kwDefaults), NodeField("kwarg", st.kwarg),
                        ListField("defaults", st.defaults)>>)

\* A regular parameter with its default value, as parseArguments files it.
RegularArgument(st, arg, hasDefault, defaultVal) ==
    IF hasDefault
    THEN IF st.seenStar
         THEN [st EXCEPT !.kwonlyargs = Append(@, arg), !.kwDefaults = Append(@, defaultVal)]
         ELSE [st EXCEPT !.args = Append(@, arg), !.defaults = Append(@, defaultVal)]
    ELSE IF st.seenStar
         THEN [st EXCEPT !.kwonlyargs = Append(@, arg), !.kwDefaults = Append(@, NoNode)]
         ELSE [st EXCEPT !.args = Append(@, arg)]

RECURSIVE ArgumentsLoop(_, _, _)
ArgumentsLoop(toks, i, st) ==
    LET done == Ok(ArgumentsNode(st), i)
        separated == st.args # <<>> \/ st.kwonlyargs # <<>> \/ st.vararg # NoNode
                     \/ st.kwarg # NoNode \/ st.seenStar
        at == IF separated THEN i + 1 ELSE i
    IN  IF match(toks, i, "OP", <<")">>) THEN done
        ELSE IF separated /\ ~match(toks, i, "OP", <<",">>) THEN done
        ELSE IF separated /\ match(toks, at, "OP", <<")">>) THEN Ok(ArgumentsNode(st), at)
        ELSE IF match(toks, at, "OP", <<"*","*">>)
        THEN IF ~matchType(toks, at + 1, "NAME") THEN Throw(at + 1)
             ELSE LET annotation == Annotation(toks, at + 2)
                  IN  IF annotation.out # "ok" THEN annotation
                      ELSE ArgumentsLoop(toks, annotation.i,
                               [st EXCEPT !.kwarg = ArgNode(Cur(toks, at + 1).value, annotation.node)])
        ELSE IF match(toks, at, "OP", <<"*">>)
        THEN IF matchType(toks, at + 1, "NAME")
             THEN LET annotation == Annotation(toks, at + 2)
                  IN  IF annotation.out # "ok" THEN annotation
                      ELSE ArgumentsLoop(toks, annotation.i,
                               [st EXCEPT !.seenStar = TRUE,
                                          !.vararg = ArgNode(Cur(toks, at + 1).value, annotation.node)])
             ELSE ArgumentsLoop(toks, at + 1, [st EXCEPT !.seenStar = TRUE])
        ELSE IF ~matchType(toks, at, "NAME") THEN Throw(at)
        ELSE LET annotation == Annotation(toks, at + 1)
             IN  IF annotation.out # "ok" THEN annotation
                 ELSE LET arg == ArgNode(Cur(toks, at).value, annotation.node)
                      IN  IF match(toks, annotation.i, "OP", <<"=">>)
                          THEN LET defaultVal == call("parseExpr", toks, annotation.i + 1)
                               IN  IF defaultVal.out # "ok" THEN defaultVal
                                   ELSE ArgumentsLoop(toks, defaultVal.i,
                                            RegularArgument(st, arg, TRUE, defaultVal.node))
                          ELSE ArgumentsLoop(toks, annotation.i,
                                             RegularArgument(st, arg, FALSE, NoNode))

parseArguments(toks, i) == ArgumentsLoop(toks, i, NoArguments)

parseReturn(toks, i) ==
    IF matchType(toks, i + 1, "NEWLINE") \/ matchType(toks, i + 1, "ENDMARKER")
    THEN Ok(Node("Return", <<NodeField("value", NoNode)>>), i + 1)
    ELSE LET value == call("parseExpr", toks, i + 1)
         IN  IF value.out # "ok" THEN value
             ELSE Ok(Node("Return", <<NodeField("value", value.node)>>), value.i)

isAssignTarget(toks, i) ==
    LET value == Peek(toks, i).value
    IN  value = <<"=">> \/ value = <<":">> \/ (value # <<>> /\ value[Len(value)] = "=")

isEndOfExprList(toks, i) ==
    \/ matchOp(toks, i, { <<")">>, <<"]">>, <<"}">>, <<":">>, <<"=">> })
    \/ matchType(toks, i, "NEWLINE")
    \/ matchType(toks, i, "ENDMARKER")

RECURSIVE ExprListLoop(_, _, _)
ExprListLoop(toks, i, elts) ==
    IF match(toks, i, "OP", <<",">>)
    THEN IF isEndOfExprList(toks, i + 1)
         THEN Ok(Node("Tuple", <<ListField("elts", elts)>>), i + 1)
         ELSE LET e == call("parseExpr", toks, i + 1)
              IN  IF e.out # "ok" THEN e
                  ELSE ExprListLoop(toks, e.i, Append(elts, e.node))
    ELSE Ok(Node("Tuple", <<ListField("elts", elts)>>), i)

parseExprList(toks, i) ==
    LET expr == call("parseExpr", toks, i)
    IN  IF expr.out # "ok" THEN expr
        ELSE IF match(toks, expr.i, "OP", <<",">>) /\ ~isAssignTarget(toks, expr.i)
        THEN ExprListLoop(toks, expr.i, <<expr.node>>)
        ELSE expr

AugOps ==
    { <<"+","=">>, <<"-","=">>, <<"*","=">>, <<"/","=">>, <<"/","/","=">>, <<"%","=">>, <<"*","*","=">>, <<"&","=">>, <<"|","=">>, <<"^","=">>,
      <<">",">","=">>, <<"<","<","=">>, <<"@","=">> }

\* the loop of a chained assignment: targets.push(parseExprList()) after each `=`
RECURSIVE AssignLoop(_, _, _)
AssignLoop(toks, i, targets) ==
    IF match(toks, i, "OP", <<"=">>)
    THEN LET target == call("parseExprList", toks, i + 1)
         IN  IF target.out # "ok" THEN target
             ELSE AssignLoop(toks, target.i, Append(targets, target.node))
    ELSE Ok(Node("Assign", <<ListField("targets", SubSeq(targets, 1, Len(targets) - 1)),
                             NodeField("value", targets[Len(targets)])>>), i)

parseExpressionStatement(toks, i) ==
    LET expr == call("parseExprList", toks, i)
    IN  IF expr.out # "ok" THEN expr
        ELSE IF match(toks, expr.i, "OP", <<":">>) THEN Outside(expr.i)
        ELSE IF matchOp(toks, expr.i, AugOps) THEN Outside(expr.i)
        ELSE IF match(toks, expr.i, "OP", <<"=">>) THEN AssignLoop(toks, expr.i, <<expr.node>>)
        ELSE Ok(Node("Expr", <<NodeField("value", expr.node)>>), expr.i)

Keywords ==
    { <<"F","a","l","s","e">>, <<"N","o","n","e">>, <<"T","r","u","e">>, <<"a","n","d">>, <<"a","s">>, <<"a","s","s","e","r","t">>, <<"a","s","y","n","c">>, <<"a","w","a","i","t">>,
      <<"b","r","e","a","k">>, <<"c","l","a","s","s">>, <<"c","o","n","t","i","n","u","e">>, <<"d","e","f">>, <<"d","e","l">>, <<"e","l","i","f">>, <<"e","l","s","e">>, <<"e","x","c","e","p","t">>,
      <<"f","i","n","a","l","l","y">>, <<"f","o","r">>, <<"f","r","o","m">>, <<"g","l","o","b","a","l">>, <<"i","f">>, <<"i","m","p","o","r","t">>, <<"i","n">>, <<"i","s">>,
      <<"l","a","m","b","d","a">>, <<"n","o","n","l","o","c","a","l">>, <<"n","o","t">>, <<"o","r">>, <<"p","a","s","s">>, <<"r","a","i","s","e">>, <<"r","e","t","u","r","n">>, <<"t","r","y">>,
      <<"w","h","i","l","e">>, <<"w","i","t","h">>, <<"y","i","e","l","d">>, <<"m","a","t","c","h">>, <<"c","a","s","e">>, <<"t","y","p","e">> }

isKeyword(value) == value \in Keywords

\* the loop of parseDottedName after the first NAME; the result carries the
\* name in a Name node
RECURSIVE DottedNameLoop(_, _, _)
DottedNameLoop(toks, i, name) ==
    IF match(toks, i, "OP", <<".">>)
    THEN IF isKeyword(Cur(toks, i + 1).value) THEN Throw(i + 1)
         ELSE IF ~matchType(toks, i + 1, "NAME") THEN Throw(i + 1)
         ELSE DottedNameLoop(toks, i + 2, name \o <<".">> \o Cur(toks, i + 1).value)
    ELSE Ok(NameNode(name), i)

parseDottedName(toks, i) ==
    IF ~matchType(toks, i, "NAME") THEN Throw(i)
    ELSE DottedNameLoop(toks, i + 1, Cur(toks, i).value)

\* { type: 'alias', name, asname }: asname is <<>> where the code has undefined
AliasNode(name, asname) == Node("alias", <<PrimField("name", name), PrimField("asname", asname)>>)

\* the do-while loop of parseImport
RECURSIVE ImportLoop(_, _, _)
ImportLoop(toks, i, names) ==
    LET at == IF names # <<>> /\ match(toks, i, "OP", <<",">>) THEN i + 1 ELSE i
        name == parseDottedName(toks, at)
    IN  IF name.out # "ok" THEN name
        ELSE LET hasAs == matchKeyword(toks, name.i, <<"a","s">>)
                 after == IF hasAs THEN name.i + 2 ELSE name.i
                 asname == IF hasAs THEN Cur(toks, name.i + 1).value ELSE <<>>
                 pushed == Append(names, AliasNode(Prim(name.node, "id"), asname))
             IN  IF hasAs /\ ~matchType(toks, name.i + 1, "NAME") THEN Throw(name.i + 1)
                 ELSE IF match(toks, after, "OP", <<",">>) THEN ImportLoop(toks, after, pushed)
                 ELSE Ok(Node("Import", <<ListField("names", pushed)>>), after)

parseImport(toks, i) == ImportLoop(toks, i + 1, <<>>)

NotModelledSimple ==
    { <<"f","r","o","m">>, <<"r","a","i","s","e">>, <<"g","l","o","b","a","l">>, <<"n","o","n","l","o","c","a","l">>, <<"a","s","s","e","r","t">>, <<"d","e","l">> }

parseSimpleStatement(toks, i) ==
    LET stmt ==
            IF matchType(toks, i, "NAME") /\ Cur(toks, i).value \in NotModelledSimple THEN Outside(i)
            ELSE IF matchKeyword(toks, i, <<"i","m","p","o","r","t">>) THEN parseImport(toks, i)
            ELSE IF matchKeyword(toks, i, <<"p","a","s","s">>) THEN Ok(Node("Pass", <<>>), i + 1)
            ELSE IF matchKeyword(toks, i, <<"b","r","e","a","k">>) THEN Ok(Node("Break", <<>>), i + 1)
            ELSE IF matchKeyword(toks, i, <<"c","o","n","t","i","n","u","e">>) THEN Ok(Node("Continue", <<>>), i + 1)
            ELSE IF matchKeyword(toks, i, <<"r","e","t","u","r","n">>) THEN call("parseReturn", toks, i)
            ELSE call("parseExpressionStatement", toks, i)
    IN  IF stmt.out = "ok" /\ matchType(toks, stmt.i, "NEWLINE")
        THEN [stmt EXCEPT !.i = @ + 1]
        ELSE stmt

NotModelledCompound ==
    { <<"c","l","a","s","s">>, <<"i","f">>, <<"f","o","r">>, <<"w","h","i","l","e">>, <<"w","i","t","h">>, <<"m","a","t","c","h">>, <<"t","r","y">>, <<"t","y","p","e">> }


\* the loop of parseSuite over an indented block
RECURSIVE SuiteLoop(_, _, _)
SuiteLoop(toks, i, body) ==
    IF matchType(toks, i, "DEDENT") THEN OkList(body, i + 1)
    ELSE IF matchType(toks, i, "ENDMARKER") THEN OkList(body, i)
    ELSE LET stmt == call("parseStatement", toks, i)
         IN  IF stmt.out # "ok" THEN stmt
             ELSE SuiteLoop(toks, stmt.i, Append(body, stmt.node))

parseSuite(toks, i) ==
    IF matchType(toks, i, "NEWLINE")
    THEN IF match(toks, i + 1, "INDENT", <<>>) THEN SuiteLoop(toks, i + 2, <<>>) ELSE Throw(i + 1)
    ELSE LET stmt == call("parseSimpleStatement", toks, i)
         IN  IF stmt.out # "ok" THEN stmt ELSE OkList(<<stmt.node>>, stmt.i)

parseFunctionDef(toks, i, isAsync) ==
    IF ~matchType(toks, i + 1, "NAME") THEN Throw(i + 1)
    ELSE IF match(toks, i + 2, "OP", <<"[">>) THEN Outside(i + 2)
    ELSE IF ~match(toks, i + 2, "OP", <<"(">>) THEN Throw(i + 2)
    ELSE LET args == call("parseArguments", toks, i + 3)
         IN  IF args.out # "ok" THEN args
             ELSE IF ~match(toks, args.i, "OP", <<")">>) THEN Throw(args.i)
             ELSE LET returns == IF match(toks, args.i + 1, "OP", <<"-",">">>)
                                 THEN call("parseExpr", toks, args.i + 2)
                                 ELSE Ok(NoNode, args.i + 1)
                  IN  IF returns.out # "ok" THEN returns
                      ELSE IF ~match(toks, returns.i, "OP", <<":">>) THEN Throw(returns.i)
                      ELSE LET body == call("parseSuite", toks, returns.i + 1)
                           IN  IF body.out # "ok" THEN body
                               ELSE Ok(Node(IF isAsync THEN "AsyncFunctionDef" ELSE "FunctionDef",
                                            <<PrimField("name", Cur(toks, i + 1).value),
                                              NodeField("args", args.node),
                                              ListField("body", body.nodes),
                                              ListField("decorator_list", <<>>),
                                              NodeField("returns", returns.node)>>), body.i)

parseAsyncStatement(toks, i) ==
    IF matchKeyword(toks, i + 1, <<"d","e","f">>) THEN parseFunctionDef(toks, i + 1, TRUE)
    ELSE IF matchKeyword(toks, i + 1, <<"f","o","r">>) \/ matchKeyword(toks, i + 1, <<"w","i","t","h">>) THEN Outside(i + 1)
    ELSE Throw(i + 1)

parseStatement(toks, i) ==
    IF match(toks, i, "OP", <<"@">>) THEN Outside(i)
    ELSE IF matchKeyword(toks, i, <<"d","e","f">>) THEN parseFunctionDef(toks, i, FALSE)
    ELSE IF matchKeyword(toks, i, <<"a","s","y","n","c">>) THEN call("parseAsyncStatement", toks, i)
    ELSE IF matchType(toks, i, "NAME") /\ Cur(toks, i).value \in NotModelledCompound THEN Outside(i)
    ELSE call("parseSimpleStatement", toks, i)

call(fn, toks, i) ==
    CASE fn = "parseExpr" -> parseExpr(toks, i)
      [] fn = "parseFactor" -> parseFactor(toks, i)
      [] fn = "parseNot" -> parseNot(toks, i)
      [] fn = "parseTernary" -> parseTernary(toks, i)
      [] fn = "parsePrimary" -> parsePrimary(toks, i)
      [] fn = "parseAtom" -> parseAtom(toks, i)
      [] fn = "parseAwait" -> parseAwait(toks, i)
      [] fn = "parsePower" -> parsePower(toks, i)
      [] fn = "parseTerm" -> parseTerm(toks, i)
      [] fn = "parseArith" -> parseArith(toks, i)
      [] fn = "parseShift" -> parseShift(toks, i)
      [] fn = "parseBitAnd" -> parseBitAnd(toks, i)
      [] fn = "parseBitXor" -> parseBitXor(toks, i)
      [] fn = "parseBitOr" -> parseBitOr(toks, i)
      [] fn = "parseComparison" -> parseComparison(toks, i)
      [] fn = "parseAnd" -> parseAnd(toks, i)
      [] fn = "parseOr" -> parseOr(toks, i)
      [] fn = "parseNamedExpr" -> parseNamedExpr(toks, i)
      [] fn = "parseArguments" -> parseArguments(toks, i)
      [] fn = "parseReturn" -> parseReturn(toks, i)
      [] fn = "parseExprList" -> parseExprList(toks, i)
      [] fn = "parseExpressionStatement" -> parseExpressionStatement(toks, i)
      [] fn = "parseSimpleStatement" -> parseSimpleStatement(toks, i)
      [] fn = "parseStatement" -> parseStatement(toks, i)
      [] fn = "parseSuite" -> parseSuite(toks, i)
      [] fn = "parseAsyncStatement" -> parseAsyncStatement(toks, i)

\* the loop of Parser.parse
RECURSIVE ModuleLoop(_, _, _)
ModuleLoop(toks, i, body) ==
    IF matchType(toks, i, "ENDMARKER") THEN Ok(Node("Module", <<ListField("body", body)>>), i)
    ELSE IF matchType(toks, i, "NEWLINE") \/ matchType(toks, i, "NL") THEN ModuleLoop(toks, i + 1, body)
    ELSE LET stmt == call("parseStatement", toks, i)
         IN  IF stmt.out # "ok" THEN stmt
             ELSE ModuleLoop(toks, stmt.i, Append(body, stmt.node))

parse(toks) == ModuleLoop(toks, 1, <<>>)

(***************************************************************************)
(* new Parser(source).parse(): the parser pulls every token through        *)
(* Tokenizer.next() (TokenizerNext) and builds the Module from them. A     *)
(* SyntaxError of the tokenizer leaves parse() through the parser.         *)
(***************************************************************************)

Parse ==
    /\ tkPhase \in {"done", "error"}
    /\ parsed = NoParse
    /\ parsed' = IF tkPhase = "error" THEN [status |-> "throw", node |-> NoNode]
                 ELSE LET r == parse(emitted)
                      IN  [status |-> r.out, node |-> r.node]
    /\ UNCHANGED <<xformVars, tokVars, yielded, transformed, venvVars, serviceVars>>

MaxParserLines == 2

ParserLines ==
    { <<"a","w","a","i","t"," ","b","a","r","(",")">>,
      <<"a","w","a","i","t"," ","o","b","j",".","r","u","n">>,
      <<"a","s","y","n","c"," ","d","e","f"," ","f","o","o","(",")",":">>,
      <<" "," "," "," ","a","w","a","i","t"," ","b","a","r","(",")">>,
      <<" "," "," "," ","r","e","t","u","r","n"," ","a">>,
      <<"d","e","f"," ","f","(","a",","," ","b","=","1",")",":">>,
      <<"d","e","f"," ","g","(","a","=","1",","," ","b",")",":"," ","p","a","s","s">>,
      <<"d","e","f"," ","h","(","a",","," ","*",","," ","c","=","2",","," ","d",")",":"," ","p","a","s","s">>,
      <<"x"," ","="," ","a"," ","<"," ","b"," ","<","="," ","c">>,
      <<"y"," ","="," ","a"," ","+"," ","b"," ","*"," ","c">>,
      <<"z"," ","="," ","n","o","t"," ","a"," ","i","n"," ","b">>,
      <<"i","m","p","o","r","t"," ","o","s",".","p","a","t","h",","," ","s","y","s"," ","a","s"," ","s">>,
      <<"b","a","r","(","a",")","[","0","]"," ","i","s"," ","n","o","t"," ","N","o","n","e">> }

ParserInputs == TextsOf(ParserLines, MaxParserLines)

InitParser == InitTokenizerWith(ParserInputs)

SpecParser == InitParser /\ [][TokenizerNext \/ Parse]_vars

\* The source never takes the parser into a branch the model leaves out.
ParserStaysInside == parsed.status # "outside"

Body(module) == Items(module, "body")

TrailerOps == { <<"(">>, <<"[">>, <<".">> }

TrailerTypes == {"Call", "Subscript", "Attribute"}

\* The source is the one statement `await <name><trailers>`.
AwaitOfTrailers ==
    /\ Len(LinesOf(tkSource)) = 1
    /\ Len(emitted) >= 3
    /\ emitted[1] = makeToken("NAME", <<"a","w","a","i","t">>)
    /\ emitted[2].type = "NAME"
    /\ emitted[3].type = "OP" /\ emitted[3].value \in TrailerOps

AwaitBarCall ==
    Node("Expr", <<NodeField("value",
        Node("Await", <<NodeField("value",
            Node("Call", <<NodeField("func", NameNode(<<"b","a","r">>)), ListField("args", <<>>),
                           ListField("keywords", <<>>)>>))>>))>>)

\* C12: the statement `await <atom><trailers>` parses to exactly one Expr
\* statement whose value is an Await of the atom with all its trailers, no
\* token being left over for another statement; `await bar()` gives
\* Expr(Await(Call(func = Name bar))).
C12_AwaitTakesTrailers ==
    (parsed # NoParse /\ AwaitOfTrailers) =>
        /\ parsed.status = "ok"
        /\ Len(Body(parsed.node)) = 1
        /\ Body(parsed.node)[1].type = "Expr"
        /\ Child(Body(parsed.node)[1], "value").type = "Await"
        /\ Child(Child(Body(parsed.node)[1], "value"), "value").type \in TrailerTypes
        /\ (tkSource = <<"a","w","a","i","t"," ","b","a","r","(",")">> => Body(parsed.node)[1] = AwaitBarCall)

(***************************************************************************)
(* Default values of parameters                                            *)
(***************************************************************************)

\* The source begins with a function definition: `def` NAME `(`.
BeginsWithDef ==
    /\ Len(emitted) >= 4
    /\ emitted[1] = makeToken("NAME", <<"d","e","f">>)
    /\ emitted[2].type = "NAME"
    /\ emitted[3] = makeToken("OP", <<"(">>)

\* The index of the `)` that closes the parameter list (the default values of
\* ParserLines hold no brackets), and of the first `*` or `**` before it.
ParamsEnd == CHOOSE k \in 4..Len(emitted) :
    /\ emitted[k] = makeToken("OP", <<")">>)
    /\ \A j \in 4..(k - 1) : emitted[j] # makeToken("OP", <<")">>)

PositionalEnd ==
    LET stars == {k \in 4..ParamsEnd : matchOp(emitted, k, { <<"*">>, <<"*","*">> })}
    IN  IF stars = {} THEN ParamsEnd ELSE CHOOSE k \in stars : \A j \in stars : k <= j

\* The tokens that name a positional parameter, as written.
WrittenParams ==
    {k \in 4..(PositionalEnd - 1) :
        /\ emitted[k].type = "NAME"
        /\ matchOp(emitted, k - 1, { <<"(">>, <<",">> })}

\* The n-th written positional parameter.
WrittenParam(n) == CHOOSE k \in WrittenParams : Cardinality({j \in WrittenParams : j <= k}) = n

WrittenWithDefault(k) == match(emitted, k + 1, "OP", <<"=">>)

\* C13: in every function definition the parser accepts, the parameters
\* written with a default value are exactly the last len(defaults) entries of
\* args.args, in order: defaults[i] is the value written for
\* args.args[len(args.args) - len(defaults) + i].
C13_DefaultsAlignWithTail ==
    (parsed.status = "ok" /\ BeginsWithDef) =>
        LET fn == Body(parsed.node)[1]
            args == Items(Child(fn, "args"), "args")
            defaults == Items(Child(fn, "args"), "defaults")
            tail == Len(args) - Len(defaults)
        IN  /\ fn.type = "FunctionDef"
            /\ Len(args) = Cardinality(WrittenParams)
            /\ \A n \in 1..Len(args) :
                   /\ Prim(args[n], "arg") = emitted[WrittenParam(n)].value
                   /\ WrittenWithDefault(WrittenParam(n)) <=> n > tail
            /\ \A i \in 1..Len(defaults) :
                   defaults[i] = ConstantNode(emitted[WrittenParam(tail + i) + 2].value)


(***************************************************************************)
(* walk (src/core/ast/visitor.ts): the nodes of a tree in the order of the *)
(* generator                                                               *)
(***************************************************************************)

\* typeof value === 'object' && value !== null && 'type' in value
isASTNode(value) == value # NoNode

RECURSIVE walk(_)

\* for (const item of value) if (isASTNode(item)) yield* walk(item); a field
\* that holds one node yields that node's walk if it is a node
RECURSIVE walkItems(_)
walkItems(items) ==
    IF items = <<>> THEN <<>>
    ELSE (IF isASTNode(Head(items)) THEN walk(Head(items)) ELSE <<>>) \o walkItems(Tail(items))

\* walk descending into arrays only
RECURSIVE walkListFields(_)
walkListFields(fields) ==
    IF fields = <<>> THEN <<>>
    ELSE (IF Head(fields).kind = "list" THEN walkItems(Head(fields).items) ELSE <<>>)
         \o walkListFields(Tail(fields))

\* for (const key of Object.keys(node)): primitives yield nothing
RECURSIVE walkFields(_)
walkFields(fields) ==
    IF fields = <<>> THEN <<>>
    ELSE (IF Head(fields).kind \in {"list", "node"} THEN walkItems(Head(fields).items) ELSE <<>>)
         \o walkFields(Tail(fields))

walk(node) == <<node>> \o walkFields(node.fields)

(***************************************************************************)
(* Compare nodes                                                           *)
(***************************************************************************)

\* The nodes of the parsed Module.
ParsedNodes == walk(parsed.node)

IsCompare(node) == node.type = "Compare"

\* The comparison operators as written: `not in` counts by its `in`, `is not` by its `is`.
ComparisonTokens ==
    {k \in 1..Len(emitted) :
        \/ matchOp(emitted, k, { <<"<">>, <<">">>, <<"=","=">>, <<"!","=">>, <<"<","=">>, <<">","=">> })
        \/ matchKeyword(emitted, k, <<"i","n">>)
        \/ matchKeyword(emitted, k, <<"i","s">>)}

\* The operators of all the Compare nodes: the pairs of a node and an index into its ops.
CompareOps ==
    {p \in (1..Len(ParsedNodes)) \X (1..Len(emitted)) :
        IsCompare(ParsedNodes[p[1]]) /\ p[2] <= Len(Prim(ParsedNodes[p[1]], "ops"))}

ChainedCompare ==
    CompareNode(NameNode(<<"a">>), <<"Lt", "LtE">>, <<NameNode(<<"b">>), NameNode(<<"c">>)>>)

\* C14: every Compare node the parser returns has as many ops as comparators
\* and at least one; the Compare nodes hold exactly the comparison operators
\* written, so a source without one yields no Compare node; `a < b <= c`
\* yields the one Compare with ops [Lt, LtE] and comparators [b, c].
C14_CompareShape ==
    parsed.status = "ok" =>
        /\ \A n \in 1..Len(ParsedNodes) :
               IsCompare(ParsedNodes[n]) =>
                   /\ Len(Prim(ParsedNodes[n], "ops")) = Len(Items(ParsedNodes[n], "comparators"))
                   /\ Len(Prim(ParsedNodes[n], "ops")) >= 1
        /\ Cardinality(CompareOps) = Cardinality(ComparisonTokens)
        /\ (tkSource = <<"x"," ","="," ","a"," ","<"," ","b"," ","<","="," ","c">> =>
               /\ Child(Body(parsed.node)[1], "value") = ChainedCompare
               /\ Cardinality({n \in 1..Len(ParsedNodes) : IsCompare(ParsedNodes[n])}) = 1)

\* A chained comparison was parsed, and so was a source without any comparison.
C14_Witness ==
    /\ parsed.status = "ok"
    /\ \E n \in 1..Len(ParsedNodes) :
           IsCompare(ParsedNodes[n]) /\ Len(Prim(ParsedNodes[n], "ops")) = 2

(***************************************************************************)
(* ASTTransformer (src/core/ast/visitor.ts)                                *)
(*                                                                         *)
(* A transformer is a subclass that overrides one hook visit_<type>; the   *)
(* hook returns null ("null") or a replacement node ("new"). Every other   *)
(* visit_<type> is the one ASTVisitor defines.                             *)
(***************************************************************************)

\* The visit_<type> methods of ASTVisitor that return this.generic_visit(node).
GenericVisitMethods ==
    {"Import", "ImportFrom", "MatchValue", "MatchSequence", "MatchMapping", "MatchClass",
     "MatchAs", "MatchOr"}

\* The visit_<type> methods of ASTVisitor that visit children, or nothing, and
\* return undefined.
UndefinedVisitMethods ==
    {"Module", "FunctionDef", "AsyncFunctionDef", "ClassDef", "Return", "Delete", "Assign",
     "AugAssign", "AnnAssign", "For", "AsyncFor", "While", "If", "With", "AsyncWith", "Match",
     "Raise", "Try", "Assert", "Global", "Nonlocal", "Expr", "Pass", "Break", "Continue",
     "TypeAlias", "BoolOp", "NamedExpr", "BinOp", "UnaryOp", "Lambda", "IfExp", "Dict", "Set",
     "ListComp", "SetComp", "DictComp", "GeneratorExp", "Await", "Yield", "YieldFrom",
     "Compare", "Call", "FormattedValue", "JoinedStr", "Constant", "Attribute", "Subscript",
     "Starred", "Name", "List", "Tuple", "Slice", "arguments", "arg", "keyword", "withitem",
     "match_case", "ExceptHandler", "comprehension", "MatchSingleton", "MatchStar"}

\* The node a hook of kind "new" returns.
ReplacementNode == NameNode(<<"r","e","p","l","a","c","e","d">>)

\* The overridden hook's return value: NoNode is null.
HookResult(hook, node) == IF hook.returns = "new" THEN ReplacementNode ELSE NoNode

\* result ?? node
OrElse(result, node) == IF result = NoNode THEN node ELSE result

RECURSIVE visit(_, _)

\* newArray of generic_visit: a node item is replaced by visit(item) and pushed
\* unless that is null; any other item is pushed as it is
RECURSIVE visitItems(_, _)
visitItems(items, hook) ==
    IF items = <<>> THEN <<>>
    ELSE LET item == Head(items)
             newItem == visit(item, hook)
         IN  (IF isASTNode(item)
              THEN (IF newItem # NoNode THEN <<newItem>> ELSE <<>>)
              ELSE <<item>>) \o visitItems(Tail(items), hook)

\* newNode[key] of generic_visit for one field
visitField(field, hook) ==
    IF field.kind = "list" THEN [field EXCEPT !.items = visitItems(field.items, hook)]
    ELSE IF field.kind = "node" /\ isASTNode(field.items[1])
    THEN [field EXCEPT !.items = <<visit(field.items[1], hook)>>]
    ELSE field

\* ASTTransformer.generic_visit
generic_visit(node, hook) ==
    Node(node.type, [k \in 1..Len(node.fields) |-> visitField(node.fields[k], hook)])

\* An inherited method that returns undefined: the nodes visit returns for the
\* children it visits are dropped.
InheritedUndefined(node, hook) == NoNode

\* ASTTransformer.visit
visit(node, hook) ==
    IF node.type = hook.type THEN OrElse(HookResult(hook, node), node)
    ELSE IF node.type \in GenericVisitMethods THEN OrElse(generic_visit(node, hook), node)
    ELSE IF node.type \in UndefinedVisitMethods THEN OrElse(InheritedUndefined(node, hook), node)
    ELSE OrElse(generic_visit(node, hook), node)

HookTypes == {"Name", "Pass", "alias", "Expr", "Import"}

Hooks == [type : HookTypes, returns : {"null", "new"}]

\* The nodes a caller hands to visit: the Module or one of its statements.
Roots ==
    IF parsed.status = "ok"
    THEN {parsed.node} \cup {Body(parsed.node)[n] : n \in 1..Len(Body(parsed.node))}
    ELSE {}

\* transformer.visit(root)
Transform(hook, root) ==
    /\ parsed.status = "ok"
    /\ transformed = NoTransform
    /\ transformed' = [status |-> "ok", node |-> visit(root, hook), root |-> root, hook |-> hook]
    /\ UNCHANGED <<xformVars, tokVars, parsed, yielded, venvVars, serviceVars>>

\* [...walk(root)]: the generator run to its end
Walk ==
    /\ parsed.status = "ok"
    /\ yielded = <<>>
    /\ yielded' = walk(parsed.node)
    /\ UNCHANGED <<xformVars, tokVars, parsed, transformed, venvVars, serviceVars>>

MaxVisitorLines == 2

VisitorLines ==
    { <<"x">>,
      <<"p","a","s","s">>,
      <<"i","m","p","o","r","t"," ","o","s",","," ","s","y","s">>,
      <<"y"," ","="," ","[","a",","," ","b","]">>,
      <<"d","e","f"," ","f","(","a",")",":"," ","p","a","s","s">>,
      <<"b","a","r","(","a",")",".","b">> }

VisitorInputs == TextsOf(VisitorLines, MaxVisitorLines)

InitVisitor == InitTokenizerWith(VisitorInputs)

VisitorNext ==
    \/ TokenizerNext
    \/ Parse
    \/ Walk
    \/ \E hook \in Hooks : \E root \in Roots : Transform(hook, root)

SpecVisitor == InitVisitor /\ [][VisitorNext]_vars

TypesOf(items) == [j \in 1..Len(items) |-> items[j].type]

\* The elements of a list that are not of the given type, in their order.
Kept(items, type) == SelectSeq(items, LAMBDA item : item.type # type)

\* C15: when the hook returns null for an element of a list-valued field, the
\* transformed tree's list omits that element and keeps the remaining
\* elements in their original order (stated for the lists of the root).
C15_NullDeletesFromList ==
    (transformed.status = "ok" /\ transformed.hook.returns = "null"
        /\ transformed.root.type # transformed.hook.type) =>
        /\ Len(transformed.node.fields) = Len(transformed.root.fields)
        /\ \A f \in 1..Len(transformed.root.fields) :
               transformed.root.fields[f].kind = "list" =>
                   TypesOf(transformed.node.fields[f].items)
                       = TypesOf(Kept(transformed.root.fields[f].items, transformed.hook.type))

\* The tree in which every node of the hook's type is the hook's result and
\* every other node is rebuilt with its children so replaced.
RECURSIVE Replaced(_, _)
Replaced(node, hook) ==
    IF node = NoNode THEN NoNode
    ELSE IF node.type = hook.type THEN HookResult(hook, node)
    ELSE Node(node.type,
              [k \in 1..Len(node.fields) |->
                  [node.fields[k] EXCEPT
                      !.items = [j \in 1..Len(node.fields[k].items) |->
                                    Replaced(node.fields[k].items[j], hook)]]])

\* C16: with one hook overridden to return a replacement node, visit(root)
\* returns the tree in which every node of that type, at any depth, is the
\* hook's result and all other nodes are rebuilt structurally unchanged.
C16_ReplacesAtAnyDepth ==
    (transformed.status = "ok" /\ transformed.hook.returns = "new") =>
        transformed.node = Replaced(transformed.root, transformed.hook)

(***************************************************************************)
(* Depth-first preorder, stated on the positions of the nodes in the tree  *)
(***************************************************************************)

\* The places of a node's children: field f, item j (a field holding one node
\* has the one item), where a node stands.
ChildSlots(node) ==
    UNION {{<<f, j>> : j \in {i \in 1..Len(node.fields[f].items) : node.fields[f].items[i] # NoNode}}
           : f \in 1..Len(node.fields)}

\* The position of every node reachable from `node`: the slots from `node` down to it.
RECURSIVE Paths(_)
Paths(node) ==
    {<<>>} \cup UNION {{<<slot>> \o p : p \in Paths(node.fields[slot[1]].items[slot[2]])}
                       : slot \in ChildSlots(node)}

RECURSIVE NodeAt(_, _)
NodeAt(node, path) ==
    IF path = <<>> THEN node
    ELSE NodeAt(node.fields[Head(path)[1]].items[Head(path)[2]], Tail(path))

SlotBefore(s, t) == s[1] < t[1] \/ (s[1] = t[1] /\ s[2] < t[2])

\* p comes before q in depth-first preorder: p is an ancestor of q, or where
\* they part p takes the earlier field or the earlier item of the list.
Before(p, q) ==
    /\ p # q
    /\ \/ Len(p) < Len(q) /\ SubSeq(q, 1, Len(p)) = p
       \/ \E k \in 1..Len(p) :
              /\ k <= Len(q)
              /\ SubSeq(p, 1, k - 1) = SubSeq(q, 1, k - 1)
              /\ SlotBefore(p[k], q[k])

\* C17: walk(root) ends, and yields every node reachable from root exactly
\* once in depth-first preorder: the node at each position is yielded after
\* exactly the nodes at the positions before it, which are its ancestors, the
\* subtrees of earlier fields and those of earlier items of the same list.
C17_WalkIsPreorder ==
    yielded # <<>> =>
        LET positions == Paths(parsed.node)
        IN  /\ Len(yielded) = Cardinality(positions)
            /\ \A p \in positions :
                   yielded[1 + Cardinality({q \in positions : Before(q, p)})]
                       = NodeAt(parsed.node, p)

\* A tree of three levels and more, with lists of several nodes, was walked.
C17_Witness ==
    /\ Len(yielded) >= 8
    /\ \E p \in Paths(parsed.node) : Len(p) >= 3
    /\ \E n \in 1..Len(yielded) : \E f \in 1..Len(yielded[n].fields) :
           yielded[n].fields[f].kind = "list" /\ Len(yielded[n].fields[f].items) >= 2

(***************************************************************************)
(* wrapAsync: the shape of the wrapper                                     *)
(***************************************************************************)

MaxAsyncLines == 3

MaxAsyncCalls == 2

AsyncLines ==
    { <<"x"," ","="," ","1">>,
      <<"d","e","f"," ","f","o","o","(",")",":">>,
      <<" "," "," "," ","r","e","t","u","r","n"," ","4","2">>,
      <<" "," ">>,
      <<>> }

AsyncInputs == TextsOf(AsyncLines, MaxAsyncLines)

InitAsync == InitWith(AsyncInputs)

SpecAsync == InitAsync /\ [][WrapAsync(MaxAsyncCalls)]_vars

WrappedAsync(k) == k \in 1..Len(calls) /\ calls[k] = "wrapAsync"

\* C18: wrapAsync(code) is the header line `async def __pyx_main__():`
\* followed by the lines of the input, every non-empty line prefixed by exactly
\* four spaces and every empty line left empty; for the empty input the body
\* is the single line `    pass`. Each line of the result, the last one too,
\* ends with a line break.
C18_WrapAsyncShape ==
    \A k \in 1..Len(calls) :
        WrappedAsync(k) =>
            LET input == LinesOf(texts[k])
                output == LinesOf(texts[k + 1])
            IN  /\ output[1] = AsyncHeader
                /\ output[Len(output)] = <<>>
                /\ IF texts[k] = <<>>
                   THEN output = <<AsyncHeader, <<" "," "," "," ","p","a","s","s">>, <<>>>>
                   ELSE /\ Len(output) = Len(input) + 2
                        /\ \A i \in 1..Len(input) :
                               IF input[i] = <<>>
                               THEN output[i + 1] = <<>>
                               ELSE output[i + 1] = <<" ", " ", " ", " ">> \o input[i]

\* wrapAsync ran on a text that has an empty line between non-empty ones.
C18_Witness ==
    \E k \in 1..Len(calls) :
        /\ WrappedAsync(k)
        /\ \E i \in 2..(Len(LinesOf(texts[k])) - 1) :
               /\ LinesOf(texts[k])[i] = <<>>
               /\ LinesOf(texts[k])[i - 1] # <<>>
               /\ LinesOf(texts[k])[i + 1] # <<>>

(***************************************************************************)
(* core/venv/compatibility.ts: package names, versions and VirtualEnv      *)
(***************************************************************************)

SmallLetters == <<"a","b","c","d","e","f","g","h","i","j","k","l","m","n","o","p","q","r","s","t","u","v","w","x","y","z">>

CapitalLetters == <<"A","B","C","D","E","F","G","H","I","J","K","L","M","N","O","P","Q","R","S","T","U","V","W","X","Y","Z">>

\* c.toLowerCase() within ASCII
toLowerCase(c) ==
    IF c \in Upper THEN SmallLetters[CHOOSE i \in 1..26 : CapitalLetters[i] = c] ELSE c

\* A normalisation that replaces the separators and keeps the case.
normalizePackageNameKeepingCase(name) ==
    [i \in 1..Len(name) |-> IF name[i] \in {".", "_"} THEN "-" ELSE name[i]]

\* name.toLowerCase().replace(/[._]/g, '-')
normalizePackageName(name) ==
    [i \in 1..Len(name) |->
        LET c == toLowerCase(name[i]) IN IF c \in {".", "_"} THEN "-" ELSE c]

DigitChars == <<"0","1","2","3","4","5","6","7","8","9">>

RECURSIVE ParseIntFrom(_, _, _)
ParseIntFrom(p, i, acc) ==
    IF i > Len(p) \/ p[i] \notin Digits THEN acc
    ELSE ParseIntFrom(p, i + 1, acc * 10 + (CHOOSE d \in 1..10 : DigitChars[d] = p[i]) - 1)

\* parseInt(p, 10) || 0 for a text without sign or leading blanks: the value
\* of the leading digits, 0 when there are none.
ParseInt(p) == ParseIntFrom(p, 1, 0)

VersionParts(v) == LET ps == Split(v, ".") IN [k \in 1..Len(ps) |-> ParseInt(ps[k])]

RECURSIVE compareVersionsFrom(_, _, _)
compareVersionsFrom(partsA, partsB, i) ==
    IF i > Max({Len(partsA), Len(partsB)}) THEN 0
    ELSE LET partA == IF i <= Len(partsA) THEN partsA[i] ELSE 0
             partB == IF i <= Len(partsB) THEN partsB[i] ELSE 0
         IN  IF partA < partB THEN -1
             ELSE IF partA > partB THEN 1
             ELSE compareVersionsFrom(partsA, partsB, i + 1)

compareVersions(a, b) == compareVersionsFrom(VersionParts(a), VersionParts(b), 1)

\* The alternatives of /^(~=|===|==|!=|<=|>=|<|>)?(.+)$/ in the order they are tried.
ConstraintOps == <<<<"~","=">>, <<"=","=","=">>, <<"=","=">>, <<"!","=">>, <<"<","=">>, <<">","=">>, <<"<">>, <<">">>>>

\* The constraints one comma-separated part contributes: none when the part is empty.
ConstraintOfPart(part) ==
    LET fits == {k \in 1..Len(ConstraintOps) :
                    /\ StartsWith(part, ConstraintOps[k])
                    /\ Len(part) > Len(ConstraintOps[k])}
    IN  IF part = <<>> THEN <<>>
        ELSE IF fits = {} THEN <<[op |-> <<"=","=">>, version |-> Trim(part)]>>
        ELSE LET op == ConstraintOps[Min(fits)]
             IN  <<[op |-> op, version |-> Trim(Drop(part, Len(op) + 1))]>>

RECURSIVE ConstraintsFrom(_, _)
ConstraintsFrom(parts, i) ==
    IF i > Len(parts) THEN <<>>
    ELSE ConstraintOfPart(Trim(parts[i])) \o ConstraintsFrom(parts, i + 1)

parseVersionConstraint(constraint) == ConstraintsFrom(Split(constraint, ","), 1)

\* One case of the switch of satisfiesConstraint, cmp being
\* compareVersions(version, constraintVersion).
SatisfiesOp(cmp, version, c) ==
        CASE c.op \in {<<"=","=">>, <<"=","=","=">>} -> cmp = 0
          [] c.op = <<"!","=">> -> cmp # 0
          [] c.op = <<"<">> -> cmp < 0
          [] c.op = <<"<","=">> -> cmp <= 0
          [] c.op = <<">">> -> cmp > 0
          [] c.op = <<">","=">> -> cmp >= 0
          [] c.op = <<"~","=">> ->
                LET parts == Split(c.version, ".")
                    versionParts == Split(version, ".")
                IN  /\ cmp >= 0
                    /\ \A i \in 1..(Len(parts) - 1) :
                           i <= Len(versionParts) /\ versionParts[i] = parts[i]

Satisfies(version, c) == SatisfiesOp(compareVersions(version, c.version), version, c)

satisfiesConstraint(version, constraints) ==
    \A k \in 1..Len(constraints) : Satisfies(version, constraints[k])

\* AVAILABLE_VERSIONS, for the packages of the model and their dependencies.
AVAILABLE_VERSIONS(normalized) ==
    CASE normalized = <<"f","l","a","s","k">> -> <<<<"1",".","1",".","0">>, <<"2",".","0",".","0">>, <<"2",".","1",".","0">>, <<"2",".","2",".","0">>, <<"2",".","3",".","0">>, <<"3",".","0",".","0">>>>
      [] normalized = <<"p","a","n","d","a","s">> -> <<<<"1",".","5",".","0">>, <<"2",".","0",".","0">>, <<"2",".","0",".","1">>, <<"2",".","1",".","0">>, <<"2",".","1",".","1">>>>
      [] normalized = <<"n","u","m","p","y">> ->
            <<<<"1",".","2","0",".","0">>, <<"1",".","2","1",".","0">>, <<"1",".","2","2",".","0">>, <<"1",".","2","3",".","0">>, <<"1",".","2","4",".","0">>, <<"1",".","2","4",".","1">>,
              <<"1",".","2","4",".","2">>, <<"1",".","2","5",".","0">>, <<"1",".","2","6",".","0">>>>
      [] normalized = <<"w","e","r","k","z","e","u","g">> -> <<<<"2",".","3",".","0">>, <<"3",".","0",".","0">>, <<"3",".","0",".","1">>>>
      [] normalized = <<"j","i","n","j","a","2">> -> <<<<"3",".","1",".","0">>, <<"3",".","1",".","2">>, <<"3",".","1",".","3">>>>
      [] normalized = <<"i","t","s","d","a","n","g","e","r","o","u","s">> -> <<<<"2",".","1",".","0">>, <<"2",".","1",".","2">>>>
      [] normalized = <<"c","l","i","c","k">> -> <<<<"8",".","1",".","0">>, <<"8",".","1",".","7">>>>
      [] normalized = <<"b","l","i","n","k","e","r">> -> <<<<"1",".","7",".","0">>>>
      [] normalized = <<"p","y","t","h","o","n","-","d","a","t","e","u","t","i","l">> -> <<<<"2",".","8",".","0">>, <<"2",".","8",".","2">>>>
      [] normalized = <<"p","y","t","z">> -> <<<<"2","0","2","3",".","3">>, <<"2","0","2","4",".","1">>>>
      [] normalized = <<"t","z","d","a","t","a">> -> <<<<"2","0","2","4",".","1">>>>
      [] normalized = <<"m","y","-","p","a","c","k","a","g","e">> -> <<<<"1",".","0",".","0">>, <<"2",".","0",".","0">>>>
      [] OTHER -> <<>>

getAvailableVersions(name) == AVAILABLE_VERSIONS(normalizePackageName(name))

\* SelectSeq keeps the order of the list, as Array.prototype.filter does.
Matching(versions, constraints) ==
    LET Fits(v) == satisfiesConstraint(v, constraints) IN SelectSeq(versions, Fits)

\* null is the empty text; an empty constraint is falsy, as an absent one.
LastOrNull(matching) == IF Len(matching) = 0 THEN <<>> ELSE matching[Len(matching)]

ResolveAmong(versions, constraint) ==
    IF Len(versions) = 0 THEN <<>>
    ELSE IF constraint = <<>> THEN versions[Len(versions)]
    ELSE LastOrNull(Matching(versions, parseVersionConstraint(constraint)))

resolveVersion(name, constraint) == ResolveAmong(getAvailableVersions(name), constraint)

FlaskDependencies == <<<<"w","e","r","k","z","e","u","g">>, <<"j","i","n","j","a","2">>, <<"i","t","s","d","a","n","g","e","r","o","u","s">>, <<"c","l","i","c","k">>>>

PandasDependencies == <<<<"n","u","m","p","y">>, <<"p","y","t","h","o","n","-","d","a","t","e","u","t","i","l">>, <<"p","y","t","z">>, <<"t","z","d","a","t","a">>>>

\* PACKAGE_DEPENDENCIES with the fall-back to the entry of the last version listed.
getPackageDependencies(name, version) ==
    LET normalized == normalizePackageName(name)
    IN  CASE normalized = <<"f","l","a","s","k">> ->
                IF version = <<"2",".","0",".","0">> THEN FlaskDependencies
                ELSE FlaskDependencies \o <<<<"b","l","i","n","k","e","r">>>>
          [] normalized = <<"p","a","n","d","a","s">> -> PandasDependencies
          [] OTHER -> <<>>

\* The members of INCOMPATIBLE_PACKAGES among the packages of the model.
INCOMPATIBLE_PACKAGES == {<<"t","o","r","c","h">>}

\* PYODIDE_PACKAGES[normalized].minVersion; no package of the table has a maxVersion.
MinVersion(normalized) ==
    CASE normalized = <<"p","a","n","d","a","s">> -> <<"2",".","0",".","0">>
      [] normalized = <<"n","u","m","p","y">> -> <<"1",".","2","4",".","0">>
      [] OTHER -> <<>>

isPyodideCompatible(name, version) ==
    LET normalized == normalizePackageName(name)
    IN  /\ normalized \notin INCOMPATIBLE_PACKAGES
        /\ (version # <<>> /\ MinVersion(normalized) # <<>>) =>
               compareVersions(version, MinVersion(normalized)) >= 0

\* An InstalledPackage without its installedAt, source and wheelTag.
InstalledPackage(name, version, dependencyOf) ==
    [name |-> name, version |-> version, dependencyOf |-> dependencyOf]

\* this._packages.has(normalized)
Has(pkgs, normalized) == \E k \in 1..Len(pkgs) : pkgs[k].name = normalized

IndexOf(pkgs, normalized) == CHOOSE k \in 1..Len(pkgs) : pkgs[k].name = normalized

\* this._packages.delete(normalized)
Delete(pkgs, normalized) ==
    LET Other(p) == p.name # normalized IN SelectSeq(pkgs, Other)

\* _installDependencies(pkg, version, visited), the loop from the i-th
\* dependency on: the packages and the visited set it leaves.
OrDefault(version) == IF version = <<>> THEN <<"1",".","0",".","0">> ELSE version

RECURSIVE installDependenciesFrom(_, _, _, _, _)
installDependenciesFrom(st, pkg, version, deps, i) ==
    IF i > Len(deps) THEN st
    ELSE LET normalizedDep == normalizePackageName(deps[i])
             seen == [st EXCEPT !.visited = @ \cup {normalizedDep}]
             depVersion == OrDefault(resolveVersion(normalizedDep, <<>>))
         IN  IF normalizedDep \in st.visited
             THEN installDependenciesFrom(st, pkg, version, deps, i + 1)
             ELSE IF Has(st.pkgs, normalizedDep)
             THEN LET k == IndexOf(st.pkgs, normalizedDep)
                      noted == IF \E j \in 1..Len(st.pkgs[k].dependencyOf) :
                                      st.pkgs[k].dependencyOf[j] = pkg
                               THEN seen
                               ELSE [seen EXCEPT !.pkgs[k].dependencyOf = Append(@, pkg)]
                  IN  installDependenciesFrom(noted, pkg, version, deps, i + 1)
             ELSE LET added == [seen EXCEPT !.pkgs =
                                   Append(@, InstalledPackage(normalizedDep, depVersion, <<pkg>>))]
                      below == installDependenciesFrom(added, normalizedDep, depVersion,
                                   getPackageDependencies(normalizedDep, depVersion), 1)
                  IN  installDependenciesFrom(below, pkg, version, deps, i + 1)

installDependencies(pkgs, pkg, version) ==
    installDependenciesFrom([pkgs |-> pkgs, visited |-> {pkg}], pkg, version,
                            getPackageDependencies(pkg, version), 1).pkgs

Rejected(message, pkgs) == [threw |-> TRUE, message |-> message, pkgs |-> pkgs]

Resolved(pkgs) == [threw |-> FALSE, message |-> <<>>, pkgs |-> pkgs]

\* install from the name it normalized and the version it resolved: null, the
\* empty text, when a constraint was given and no version satisfies it.
installResolved(pkgs, strict, normalized, version, resolveDependencies, resolvedVersion) ==
    LET set == Append(pkgs, InstalledPackage(normalized, resolvedVersion, <<>>))
    IN  IF Has(pkgs, normalized)
        THEN Rejected(<<"P","a","c","k","a","g","e"," ">> \o normalized \o <<" ","i","s"," ","a","l","r","e","a","d","y"," ","i","n","s","t","a","l","l","e","d">>, pkgs)
        ELSE IF resolvedVersion = <<>>
        THEN Rejected(<<"N","o"," ","c","o","m","p","a","t","i","b","l","e"," ","v","e","r","s","i","o","n"," ","f","o","u","n","d"," ","f","o","r"," ">> \o normalized
                        \o <<" ","w","i","t","h"," ","c","o","n","s","t","r","a","i","n","t"," ">> \o version, pkgs)
        ELSE IF ~isPyodideCompatible(normalized, resolvedVersion) /\ strict
        THEN Rejected(<<"P","a","c","k","a","g","e"," ">> \o normalized \o <<" ","i","s"," ","n","o","t"," ","c","o","m","p","a","t","i","b","l","e"," ","w","i","t","h"," ","P","y","o","d","i","d","e">>, pkgs)
        ELSE IF resolveDependencies
        THEN Resolved(installDependencies(set, normalized, resolvedVersion))
        ELSE Resolved(set)

installNormalized(pkgs, strict, normalized, version, resolveDependencies) ==
    installResolved(pkgs, strict, normalized, version, resolveDependencies,
                    IF version = <<>> THEN OrDefault(resolveVersion(normalized, <<>>))
                    ELSE resolveVersion(normalized, version))

\* VirtualEnv.install(pkg, version, {resolveDependencies}) without a wheelUrl:
\* whether it rejects, with which message, and the packages it leaves.
install(pkgs, strict, pkg, version, resolveDependencies) ==
    installNormalized(pkgs, strict, normalizePackageName(pkg), version, resolveDependencies)

\* VirtualEnv.uninstall(pkg)
uninstall(pkgs, pkg) ==
    LET normalized == normalizePackageName(pkg)
    IN  IF ~Has(pkgs, normalized)
        THEN Rejected(<<"P","a","c","k","a","g","e"," ">> \o normalized \o <<" ","i","s"," ","n","o","t"," ","i","n","s","t","a","l","l","e","d">>, pkgs)
        ELSE Resolved(Delete(pkgs, normalized))

MaxVenvCalls == 3

\* One more call of the VirtualEnv method op, with outcome out.
VenvCall(op, pkg, version, out) ==
    /\ Len(calls) < MaxVenvCalls
    /\ calls' = Append(calls, op)
    /\ packages' = out.pkgs
    /\ venvLast' = [op |-> op, pkg |-> pkg, version |-> version, threw |-> out.threw,
                    message |-> out.message, before |-> packages]
    /\ UNCHANGED <<src, texts, report, tokVars, astVars, strictPyodideCompatibility,
                   exported, imported, depRun, serviceVars>>

Install(pkg, version, resolveDependencies) ==
    VenvCall("install", pkg, version,
             install(packages, strictPyodideCompatibility, pkg, version, resolveDependencies))

Uninstall(pkg) == VenvCall("uninstall", pkg, <<>>, uninstall(packages, pkg))

PackageNames ==
    { <<"f","l","a","s","k">>, <<"F","l","a","s","k">>, <<"m","y","_","p","a","c","k","a","g","e">>, <<"M","y",".","P","a","c","k","a","g","e">>, <<"p","a","n","d","a","s">>, <<"t","o","r","c","h">> }

VersionConstraints == { <<>>, <<"2",".","0",".","0">>, <<">","=","2",".","0",".","0",",","<","3",".","0",".","0">>, <<"=","=","1",".","5",".","0">> }

InitVenv ==
    /\ src = <<>>
    /\ calls = <<>>
    /\ texts = <<src>>
    /\ report = NoReport
    /\ TokIdle
    /\ AstIdle
    /\ packages = <<>>
    /\ venvLast = NoCall
    /\ strictPyodideCompatibility \in BOOLEAN
    /\ exported = NoExport
    /\ imported = NoImport
    /\ depRun = NoRun
    /\ ServiceIdle

VenvNext ==
    \/ \E pkg \in PackageNames, version \in VersionConstraints, deps \in BOOLEAN :
           Install(pkg, version, deps)
    \/ \E pkg \in PackageNames : Uninstall(pkg)

SpecVenv == InitVenv /\ [][VenvNext]_vars

\* Two names of one distribution: equal up to the case of the letters, with
\* `-`, `_` and `.` counting as the same character.
SameNormalizedName(a, b) ==
    /\ Len(a) = Len(b)
    /\ \A i \in 1..Len(a) :
           \/ toLowerCase(a[i]) = toLowerCase(b[i])
           \/ {a[i], b[i]} \subseteq {"-", "_", "."}

InstalledAs(pkgs, pkg) == {k \in 1..Len(pkgs) : SameNormalizedName(pkgs[k].name, pkg)}

\* C20: install(pkg, ...) rejects with `Package <name> is already installed`
\* whenever a package with the same normalized name (letters compared without
\* case, `_` and `.` taken as `-`) is installed, <name> being the name it is
\* installed under, and the rejected call leaves the installed packages and
\* their versions as they were.
C20_InstallRejectsInstalled ==
    (venvLast.op = "install" /\ InstalledAs(venvLast.before, venvLast.pkg) # {}) =>
        /\ venvLast.threw
        /\ \E k \in InstalledAs(venvLast.before, venvLast.pkg) :
               venvLast.message =
                   <<"P","a","c","k","a","g","e"," ">> \o venvLast.before[k].name \o <<" ","i","s"," ","a","l","r","e","a","d","y"," ","i","n","s","t","a","l","l","e","d">>
        /\ packages = venvLast.before

\* install was called with a version, under a spelling other than the one the
\* package is installed under, while other packages were installed too.
C20_Witness ==
    /\ venvLast.op = "install"
    /\ \E k \in InstalledAs(venvLast.before, venvLast.pkg) :
           venvLast.before[k].name # venvLast.pkg
    /\ venvLast.version # <<>>
    /\ Len(venvLast.before) > 1
    /\ venvLast.threw

(***************************************************************************)
(* VirtualEnv.export, VirtualEnv.import and VirtualEnv.fromState           *)
(***************************************************************************)

\* `${pkg.name}==${pkg.version}` for each package, joined by line breaks
exportRequirements(pkgs) ==
    Join([k \in 1..Len(pkgs) |-> pkgs[k].name \o <<"=","=">> \o pkgs[k].version], NL)

\* The packages array of the JSON state: an ExportedPackage has the fields of
\* the InstalledPackage, installedAt as an ISO string.
exportState(pkgs) == pkgs

RequirementNameChars == Lower \cup Upper \cup Digits \cup {"_", "-"}

RequirementOpChars == {"=", "<", ">", "!", "~"}

\* /^([a-zA-Z0-9_-]+)(([=<>!~]+)(.+))?$/ with its optional group taken
RequirementWithSpecRe ==
    <<ReBOL, ReOpen(1), RePlus(ReSet(RequirementNameChars)), ReClose(1),
      ReOpen(2), RePlus(ReSet(RequirementOpChars)), RePlus(ReDot), ReClose(2), ReEOL>>

\* the same pattern with its optional group skipped
RequirementBareRe == <<ReBOL, ReOpen(1), RePlus(ReSet(RequirementNameChars)), ReClose(1), ReEOL>>

\* One pass of the loop of import over the lines of a requirements text: the
\* line is skipped, or the package it names is installed.
importRequirement(pkgs, strict, line, replace) ==
    LET trimmed == Trim(line)
        withSpec == ReExecAt(RequirementWithSpecRe, trimmed, 1)
        m == IF withSpec.index # 0 THEN withSpec ELSE ReExecAt(RequirementBareRe, trimmed, 1)
        pkgName == Capture(trimmed, m, 1)
        versionSpec == IF withSpec.index # 0 THEN Capture(trimmed, m, 2) ELSE <<>>
    IN  IF \/ trimmed = <<>>
           \/ trimmed[1] = "#"
           \/ m.index = 0
           \/ Has(pkgs, normalizePackageName(pkgName)) /\ ~replace
        THEN Resolved(pkgs)
        ELSE install(pkgs, strict, pkgName, versionSpec, FALSE)

\* The loop from line i on; a rejected install ends it.
RECURSIVE importRequirementsFrom(_, _, _, _, _)
importRequirementsFrom(st, strict, lines, i, replace) ==
    IF i > Len(lines) \/ st.threw THEN st
    ELSE importRequirementsFrom(importRequirement(st.pkgs, strict, lines[i], replace),
                                strict, lines, i + 1, replace)

\* this._packages.set(normalized, pkg): a key already present keeps its place
Set(pkgs, pkg) ==
    IF Has(pkgs, pkg.name) THEN [pkgs EXCEPT ![IndexOf(pkgs, pkg.name)] = pkg]
    ELSE Append(pkgs, pkg)

\* An import that takes the latest version of the table, not the exported one.
RECURSIVE importStateLatestFrom(_, _, _, _)
importStateLatestFrom(pkgs, state, i, replace) ==
    IF i > Len(state) THEN pkgs
    ELSE LET normalized == normalizePackageName(state[i].name)
             latest == IF resolveVersion(normalized, <<>>) = <<>> THEN state[i].version
                       ELSE resolveVersion(normalized, <<>>)
         IN  IF Has(pkgs, normalized) /\ ~replace
             THEN importStateLatestFrom(pkgs, state, i + 1, replace)
             ELSE importStateLatestFrom(
                      Set(pkgs, InstalledPackage(normalized, latest, state[i].dependencyOf)),
                      state, i + 1, replace)

\* The loop of import over state.packages, from the i-th on.
RECURSIVE importStateFrom(_, _, _, _)
importStateFrom(pkgs, state, i, replace) ==
    IF i > Len(state) THEN pkgs
    ELSE LET normalized == normalizePackageName(state[i].name)
         IN  IF Has(pkgs, normalized) /\ ~replace
             THEN importStateFrom(pkgs, state, i + 1, replace)
             ELSE importStateFrom(
                      Set(pkgs, InstalledPackage(normalized, state[i].version,
                                                 state[i].dependencyOf)),
                      state, i + 1, replace)

\* VirtualEnv.import(state, {replace}) of what export returned: a text takes
\* the requirements branch, a state object the JSON branch.
import(pkgs, strict, state, replace) ==
    LET start == IF replace THEN <<>> ELSE pkgs
    IN  IF state.format = "requirements"
        THEN importRequirementsFrom(Resolved(start), strict, Split(state.text, NL), 1, replace)
        ELSE Resolved(importStateFrom(start, state.packages, 1, replace))

MaxExportCalls == 2

Export(format) ==
    /\ exported = NoExport
    /\ calls' = Append(calls, "export")
    /\ exported' = [format |-> format,
                    packages |-> IF format = "json" THEN exportState(packages) ELSE <<>>,
                    text |-> IF format = "requirements" THEN exportRequirements(packages)
                             ELSE <<>>,
                    from |-> packages]
    /\ UNCHANGED <<src, texts, report, tokVars, astVars, packages, venvLast,
                   strictPyodideCompatibility, imported, depRun, serviceVars>>

Outcome(via, out) ==
    [status |-> IF out.threw THEN "throw" ELSE "ok", via |-> via,
     packages |-> out.pkgs, message |-> out.message]

\* import, or fromState, on a VirtualEnv just constructed: no package, lenient.
ImportInto(via, replace) ==
    /\ exported # NoExport
    /\ imported = NoImport
    /\ calls' = Append(calls, via)
    /\ imported' = Outcome(via, import(<<>>, FALSE, exported, replace))
    /\ UNCHANGED <<src, texts, report, tokVars, astVars, packages, venvLast,
                   strictPyodideCompatibility, exported, depRun, serviceVars>>

Import(replace) == ImportInto("import", replace)

\* VirtualEnv.fromState(state): new VirtualEnv, then import(state)
FromState == exported.format = "json" /\ ImportInto("fromState", FALSE)

ExportNames == { <<"F","l","a","s","k">>, <<"m","y","_","p","a","c","k","a","g","e">>, <<"p","a","n","d","a","s">>, <<"t","o","r","c","h">> }

ExportConstraints == { <<>>, <<"=","=","1",".","5",".","0">> }

InstallForExport(pkg, version, resolveDependencies) ==
    /\ Len(SelectSeq(calls, LAMBDA c : c \in {"install", "uninstall"})) < MaxExportCalls
    /\ Install(pkg, version, resolveDependencies)

UninstallForExport(pkg) ==
    /\ Len(SelectSeq(calls, LAMBDA c : c \in {"install", "uninstall"})) < MaxExportCalls
    /\ Uninstall(pkg)

ExportNext ==
    \/ \E pkg \in ExportNames, version \in ExportConstraints, deps \in BOOLEAN :
           InstallForExport(pkg, version, deps)
    \/ \E pkg \in ExportNames : UninstallForExport(pkg)
    \/ \E format \in {"json", "requirements"} : Export(format)
    \/ \E replace \in BOOLEAN : Import(replace)
    \/ FromState

SpecExport == InitVenv /\ [][ExportNext]_vars

\* The installed package names, each with its version.
Versions(pkgs) == {<<pkgs[k].name, pkgs[k].version>> : k \in 1..Len(pkgs)}

\* C21: importing the JSON state e.export() into a fresh VirtualEnv, or
\* building one with VirtualEnv.fromState, succeeds and yields an environment
\* whose installed package names are exactly those of e, each with the same
\* version.
C21_JsonRoundTrip ==
    (imported # NoImport /\ exported.format = "json") =>
        /\ imported.status = "ok"
        /\ Versions(imported.packages) = Versions(exported.from)
        /\ Len(imported.packages) = Len(exported.from)

\* A JSON state with a package at a version other than the latest of the
\* version table, and one installed as a dependency, was imported.
C21_Witness ==
    /\ imported.status = "ok"
    /\ exported.format = "json"
    /\ \E k \in 1..Len(imported.packages) :
           /\ resolveVersion(imported.packages[k].name, <<>>) # <<>>
           /\ imported.packages[k].version # resolveVersion(imported.packages[k].name, <<>>)
    /\ \E k \in 1..Len(imported.packages) : imported.packages[k].dependencyOf # <<>>

\* C30: for any VirtualEnv reached through install calls, packages installed
\* without a version and packages unknown to the version table included,
\* importing its requirements export into a fresh VirtualEnv succeeds and
\* yields the same package names with the same versions.
C30_RequirementsRoundTrip ==
    (imported # NoImport /\ exported.format = "requirements") =>
        /\ imported.status = "ok"
        /\ Versions(imported.packages) = Versions(exported.from)

(***************************************************************************)
(* _installDependencies, call by call, over any dependency graph           *)
(***************************************************************************)

\* The packages of the graphs. None is in the version table, so each is
\* installed at the default version.
GraphNodes == { <<"a">>, <<"b">>, <<"c">> }

\* What getPackageDependencies may return for a package: any of these lists.
DependencyLists ==
    { <<>>, <<<<"a">>>>, <<<<"b">>>>, <<<<"b">>, <<"c">>>>, <<<<"c">>, <<"a">>>>, <<<<"c">>, <<"c">>>>,
      <<<<"B">>, <<"b">>>> }

\* The deepest call stack allowed; a run over GraphNodes needs at most one
\* frame per package.
MaxDepth == 4

\* A frame of _installDependencies(pkg, version, visited): the for loop is at deps[i].
Frame(pkg, version) == [pkg |-> pkg, version |-> version, i |-> 1]

\* Whether the loop passes over dep without installing it:
\* visited.has(normalizedDep), or this._packages.has(normalizedDep).
SkipsNever(run, normalizedDep) == FALSE

Skips(run, normalizedDep) == normalizedDep \in run.visited \/ Has(run.pkgs, normalizedDep)

\* Notes pkg in existing.dependencyOf, once.
NoteDependencyOf(pkgs, normalizedDep, pkg) ==
    LET k == IndexOf(pkgs, normalizedDep)
    IN  IF \E j \in 1..Len(pkgs[k].dependencyOf) : pkgs[k].dependencyOf[j] = pkg
        THEN pkgs
        ELSE [pkgs EXCEPT ![k].dependencyOf = Append(@, pkg)]

\* One pass of the for loop of the frame on top of the stack, or its return.
DependencyStep(run) ==
    LET top == run.stack[Len(run.stack)]
        deps == run.graph[top.pkg]
        normalizedDep == normalizePackageName(deps[top.i])
        depVersion == OrDefault(resolveVersion(normalizedDep, <<>>))
        advanced == [run EXCEPT !.stack[Len(run.stack)].i = @ + 1]
    IN  IF top.i > Len(deps)
        THEN [run EXCEPT !.stack = SubSeq(@, 1, Len(@) - 1),
                         !.status = IF Len(run.stack) = 1 THEN "done" ELSE "running"]
        ELSE IF Skips(run, normalizedDep)
        THEN IF normalizedDep \in run.visited
             THEN advanced
             ELSE [advanced EXCEPT !.visited = @ \cup {normalizedDep},
                                   !.pkgs = NoteDependencyOf(@, normalizedDep, top.pkg)]
        ELSE [advanced EXCEPT
                 !.visited = @ \cup {normalizedDep},
                 !.pkgs = Append(@, InstalledPackage(normalizedDep, depVersion, <<top.pkg>>)),
                 !.sets = Append(@, normalizedDep),
                 !.stack = Append(@, Frame(normalizedDep, depVersion))]

\* install(root, undefined, {resolveDependencies: true}) up to its call of
\* _installDependencies(normalized, resolvedVersion, new Set([normalized])).
StartDependencies(root) ==
    /\ depRun.status = "ready"
    /\ ~Has(depRun.pkgs, normalizePackageName(root))
    /\ depRun' = [depRun EXCEPT
                     !.status = "running",
                     !.root = normalizePackageName(root),
                     !.before = depRun.pkgs,
                     !.pkgs = Append(@, InstalledPackage(normalizePackageName(root),
                                                         <<"1",".","0",".","0">>, <<>>)),
                     !.visited = {normalizePackageName(root)},
                     !.stack = <<Frame(normalizePackageName(root), <<"1",".","0",".","0">>)>>]
    /\ UNCHANGED <<xformVars, tokVars, astVars, packages, venvLast,
                   strictPyodideCompatibility, exported, imported, serviceVars>>

StepDependencies ==
    /\ depRun.status = "running"
    /\ Len(depRun.stack) <= MaxDepth
    /\ depRun' = DependencyStep(depRun)
    /\ UNCHANGED <<xformVars, tokVars, astVars, packages, venvLast,
                   strictPyodideCompatibility, exported, imported, serviceVars>>

\* Any dependency graph over GraphNodes, and an environment that is empty or
\* has one of the packages already.
InitDependencies ==
    /\ src = <<>>
    /\ calls = <<>>
    /\ texts = <<src>>
    /\ report = NoReport
    /\ TokIdle
    /\ AstIdle
    /\ packages = <<>>
    /\ venvLast = NoCall
    /\ strictPyodideCompatibility = FALSE
    /\ exported = NoExport
    /\ imported = NoImport
    /\ ServiceIdle
    /\ \E graph \in [GraphNodes -> DependencyLists],
          pkgs \in {<<>>, <<InstalledPackage(<<"c">>, <<"1",".","0",".","0">>, <<>>)>>} :
           depRun = [status |-> "ready", graph |-> graph, root |-> <<>>, before |-> pkgs,
                     pkgs |-> pkgs, visited |-> {}, stack |-> <<>>, sets |-> <<>>]

DependenciesNext ==
    \/ \E root \in GraphNodes : StartDependencies(root)
    \/ StepDependencies

SpecDependencies ==
    InitDependencies /\ [][DependenciesNext]_vars /\ WF_vars(StepDependencies)

\* No dependency is stored twice, and none that was installed already.
InstalledAtMostOnce ==
    depRun.status \in {"running", "done"} =>
        /\ \A j, k \in 1..Len(depRun.sets) : depRun.sets[j] = depRun.sets[k] => j = k
        /\ \A k \in 1..Len(depRun.sets) :
               /\ depRun.sets[k] # depRun.root
               /\ ~Has(depRun.before, depRun.sets[k])

\* C22: install with resolveDependencies terminates for every dependency
\* graph, cycles included, and installs each transitive dependency at most
\* once.
C22_DependenciesTerminate ==
    /\ [](InstalledAtMostOnce)
    /\ (depRun.status = "running") ~> (depRun.status = "done")

\* A run ended on a graph in which the root depends on itself through
\* another package, with a package met again after it was installed.
C22_Witness ==
    /\ depRun.status = "done"
    /\ \E n \in GraphNodes \ {depRun.root} :
           /\ \E k \in 1..Len(depRun.graph[depRun.root]) :
                  normalizePackageName(depRun.graph[depRun.root][k]) = n
           /\ \E k \in 1..Len(depRun.graph[n]) :
                  normalizePackageName(depRun.graph[n][k]) = depRun.root
    /\ Len(depRun.sets) >= 2

(***************************************************************************)
(* core/backend.ts: MockBackend, its globals, packages and snapshots       *)
(***************************************************************************)

\* A Map is the sequence of its entries in insertion order.
MapHas(m, key) == \E k \in 1..Len(m) : m[k].key = key

\* map.set(key, value): a key already present keeps its place
MapSet(m, key, value) ==
    IF MapHas(m, key)
    THEN [k \in 1..Len(m) |-> IF m[k].key = key THEN [key |-> key, value |-> value] ELSE m[k]]
    ELSE Append(m, [key |-> key, value |-> value])

\* map.get(key), "undefined" for a key that is absent
MapGet(m, key) ==
    IF MapHas(m, key) THEN m[CHOOSE k \in 1..Len(m) : m[k].key = key].value ELSE "undefined"

RECURSIVE MapSetAll(_, _, _)
MapSetAll(m, entries, i) ==
    IF i > Len(entries) THEN m
    ELSE MapSetAll(MapSet(m, entries[i].key, entries[i].value), entries, i + 1)

\* The JavaScript values of the model: two numbers, undefined, NaN and null.
GlobalValues == {"42", "100", "undefined", "NaN", "null"}

\* What JSON.stringify writes for a value that is the property of an object:
\* NaN is written as null; a property whose value is undefined is left out.
JsonValue(value) == IF value = "NaN" THEN "null" ELSE value

\* A serialisation that keeps every value as it is.
StringifyVerbatim(m) == m

\* JSON.stringify(Object.fromEntries(map)), as the JSON document it writes.
\* No key of the model is an array index, so the properties keep the order of
\* insertion.
Stringify(m) ==
    LET Written(e) == e.value # "undefined"
        kept == SelectSeq(m, Written)
    IN  [k \in 1..Len(kept) |-> [key |-> kept[k].key, value |-> JsonValue(kept[k].value)]]

\* JSON.stringify(Object.fromEntries(this.packages)): a Package is an object
\* of two strings, which JSON writes and reads back as they are.
StringifyPackages(m) == m

\* new Map(Object.entries(JSON.parse(text)))
ParseEntries(document) == document

\* this.packages.set(name, {name, version: version ?? '1.0.0'}); an absent
\* version is the empty text.
PackageOf(name, version) ==
    [name |-> name, version |-> IF version = <<>> THEN <<"1",".","0",".","0">> ELSE version]

\* createSnapshot(): the bytes it returns, as the document they encode
SnapshotOf(backend) ==
    [globals |-> Stringify(backend.globals), packages |-> StringifyPackages(backend.packages)]

MaxBackendCalls == 4

\* One more call of a MockBackend method: recordCall, then the method's effect.
BackendCall(method, backend, snapshots) ==
    /\ Len(calls) < MaxBackendCalls
    /\ calls' = Append(calls, method)
    /\ mock' = backend
    /\ taken' = snapshots
    /\ UNCHANGED <<src, texts, report, tokVars, astVars, venvVars,
                   storage, manager, requests, ran, now>>

\* exec(code, {globals}): the globals of the options are set, one by one.
BackendExec(globals) ==
    BackendCall("exec", [mock EXCEPT !.globals = MapSetAll(@, globals, 1), !.restored = 0],
                taken)

SetGlobal(name, value) ==
    BackendCall("setGlobal", [mock EXCEPT !.globals = MapSet(@, name, value), !.restored = 0],
                taken)

BackendInstallPackage(name, version) ==
    BackendCall("installPackage",
                [mock EXCEPT !.packages = MapSet(@, name, PackageOf(name, version)),
                             !.restored = 0],
                taken)

\* reset(): globals, packages and modules are cleared
BackendReset ==
    BackendCall("reset", [globals |-> <<>>, packages |-> <<>>, restored |-> 0], taken)

\* createSnapshot(): the snapshot, kept with the state it was taken from
BackendCreateSnapshot ==
    BackendCall("createSnapshot", [mock EXCEPT !.restored = 0],
                Append(taken, [data |-> SnapshotOf(mock), globals |-> mock.globals,
                               packages |-> mock.packages]))

\* restoreSnapshot(data) with the k-th snapshot taken
BackendRestoreSnapshot(k) ==
    BackendCall("restoreSnapshot",
                [globals |-> ParseEntries(taken[k].data.globals),
                 packages |-> ParseEntries(taken[k].data.packages),
                 restored |-> k],
                taken)

GlobalNames == {"x", "y"}

BackendPackages == { <<"r","e","q","u","e","s","t","s">>, <<"n","u","m","p","y">> }

BackendVersions == { <<>>, <<"2",".","0",".","0">> }

InitBackend ==
    /\ src = <<>>
    /\ calls = <<>>
    /\ texts = <<src>>
    /\ report = NoReport
    /\ TokIdle
    /\ AstIdle
    /\ VenvIdle
    /\ ServiceIdle

BackendNext ==
    \/ \E name \in GlobalNames, value \in GlobalValues : SetGlobal(name, value)
    \/ \E name \in GlobalNames, value \in GlobalValues :
           BackendExec(<<[key |-> name, value |-> value]>>)
    \/ BackendExec(<<>>)
    \/ \E name \in BackendPackages, version \in BackendVersions :
           BackendInstallPackage(name, version)
    \/ BackendReset
    \/ BackendCreateSnapshot
    \/ \E k \in 1..Len(taken) : BackendRestoreSnapshot(k)

SpecBackend == InitBackend /\ [][BackendNext]_vars

\* getGlobal(name) for every name: what the globals are to a caller.
GlobalsOf(m) == [name \in GlobalNames |-> MapGet(m, name)]

\* C23: restoreSnapshot(s), with s returned by an earlier createSnapshot(),
\* puts the globals and the installed-package list back to exactly their
\* values at the time of that createSnapshot, whatever calls happened in
\* between.
C23_RestoreIsExact ==
    mock.restored # 0 =>
        /\ GlobalsOf(mock.globals) = GlobalsOf(taken[mock.restored].globals)
        /\ mock.packages = taken[mock.restored].packages

(***************************************************************************)
(* core/index.ts: SessionManager over a DurableObjectStorage and a backend *)
(***************************************************************************)

\* The storage, the manager, the backend, the clock and the log of what ran,
\* as one record the methods of SessionManager map to a new one.
System == [storage |-> storage, manager |-> manager, mock |-> mock, ran |-> ran, now |-> now]

\* Date.now() - state.lastActivityAt > this.options.timeout
isExpired(sys, state) == sys.now - state.lastActivityAt > sys.manager.timeout

isActive(sys) ==
    /\ sys.manager.state # NoSession
    /\ ~sys.manager.state.closed
    /\ ~isExpired(sys, sys.manager.state)

\* storage.put(`session:${this.state.id}`, this.state): the storage keeps a copy
saveState(sys) ==
    IF sys.manager.state = NoSession THEN sys
    ELSE [sys EXCEPT !.storage.sessions[sys.manager.state.id] = sys.manager.state]

\* storage.put(`history:${this.state.id}`, this.history)
saveHistory(sys) ==
    IF sys.manager.state = NoSession THEN sys
    ELSE [sys EXCEPT !.storage.histories[sys.manager.state.id] = Defined(sys.manager.history)]

NewSessionState(id, at) ==
    [id |-> id, createdAt |-> at, lastActivityAt |-> at, packages |-> <<>>,
     executionCount |-> 0, closed |-> FALSE]

\* What init does once storage.get(`session:${sessionId}`) returned existing:
\* it restores the session and, after the save, asks for its history, or
\* creates a session.
Restorable(sys, existing) ==
    /\ existing # NoSession
    /\ ~existing.closed
    /\ ~isExpired(sys, existing)

RestoreSession(sys, existing) ==
    saveState([sys EXCEPT !.manager.state = [existing EXCEPT !.lastActivityAt = sys.now]])

CreateSession(sys, id) == saveState([sys EXCEPT !.manager.state = NewSessionState(id, sys.now)])

LoadHistory(sys, historyData) ==
    IF historyData.defined THEN [sys EXCEPT !.manager.history = historyData.value] ELSE sys

\* init(sessionId), options.packages being empty; sessionId "" is undefined,
\* and generated is what generateId() returns then.
init(sys, sessionId, generated) ==
    IF sessionId # "" /\ Restorable(sys, sys.storage.sessions[sessionId])
    THEN LoadHistory(RestoreSession(sys, sys.storage.sessions[sessionId]),
                     sys.storage.histories[sessionId])
    ELSE CreateSession(sys, IF sessionId = "" THEN generated ELSE sessionId)

\* array.slice(-n): the last n elements, and the whole array for n = 0, -0 being 0
SliceLast(array, n) ==
    IF n = 0 \/ n >= Len(array) THEN array ELSE SubSeq(array, Len(array) - n + 1, Len(array))

\* this.history.push(record) and the trimming to options.maxHistory
Pushed(history, record, maxHistory) ==
    IF Len(history) + 1 > maxHistory THEN SliceLast(Append(history, record), maxHistory)
    ELSE Append(history, record)

\* An ExecutionRecord: its code, and for the properties the session that was
\* current when it was made and its place among the executions of the backend.
Record(sys, code) == [code |-> code, session |-> sys.manager.state.id, n |-> Len(sys.ran) + 1]

\* exec, from the call of backend.exec on: the backend runs the code.
BackendRuns(sys, code) ==
    [sys EXCEPT !.ran = Append(@, [kind |-> "exec", code |-> code,
                                   session |-> sys.manager.state.id])]

\* exec, after backend.exec returned: the count, the record, the two saves.
Recorded(sys, record) ==
    [sys EXCEPT !.manager.state.executionCount = @ + 1,
                !.manager.state.lastActivityAt = sys.now,
                !.manager.history = Pushed(@, record, sys.manager.maxHistory)]

Threw(sys) == [sys |-> sys, threw |-> TRUE]

Returned2(sys) == [sys |-> sys, threw |-> FALSE]

\* exec(code)
exec(sys, code) ==
    IF ~isActive(sys) THEN Threw(sys)
    ELSE Returned2(saveHistory(saveState(Recorded(BackendRuns(sys, code), Record(sys, code)))))

\* installPackage(name, version); 'latest' stands for an absent version
installPackage(sys, name, version) ==
    IF ~isActive(sys) THEN Threw(sys)
    ELSE Returned2(saveState(
             [sys EXCEPT !.mock.packages = MapSet(@, name, PackageOf(name, version)),
                         !.manager.state.packages =
                             Append(@, [name |-> name,
                                        version |-> IF version = <<>> THEN <<"l","a","t","e","s","t">>
                                                    ELSE version]),
                         !.manager.state.lastActivityAt = sys.now]))

\* createSnapshot(): the n-th snapshot has the id n
createSnapshot(sys) ==
    LET id == Len(sys.storage.snapshots) + 1
        metadata == [id |-> id, sessionId |-> sys.manager.state.id,
                     packages |-> sys.manager.state.packages]
        listed == sys.storage.lists[sys.manager.state.id]
    IN  IF ~isActive(sys) THEN Threw(sys)
        ELSE Returned2(
                 [sys EXCEPT !.storage.snapshots =
                                 Append(@, [data |-> SnapshotOf(sys.mock), meta |-> metadata]),
                             !.storage.lists[sys.manager.state.id] =
                                 Defined((IF listed.defined THEN listed.value ELSE <<>>)
                                         \o <<id>>)])

\* restoreSnapshot(snapshotId)
restoreSnapshot(sys, snapshotId) ==
    LET found == sys.storage.snapshots[snapshotId]
        restored == [sys EXCEPT !.mock.globals = ParseEntries(found.data.globals),
                                !.mock.packages = ParseEntries(found.data.packages)]
    IN  IF snapshotId \notin 1..Len(sys.storage.snapshots) THEN Threw(sys)
        ELSE IF sys.manager.state = NoSession THEN Returned2(restored)
        ELSE Returned2(saveState([restored EXCEPT
                           !.manager.state.packages = found.meta.packages,
                           !.manager.state.lastActivityAt = sys.now]))

\* close()
close(sys) ==
    LET closed == IF sys.manager.state = NoSession THEN sys
                  ELSE saveState([sys EXCEPT !.manager.state.closed = TRUE])
    IN  [closed EXCEPT !.mock.globals = <<>>, !.mock.packages = <<>>,
                       !.ran = IF sys.manager.state = NoSession THEN @
                               ELSE Append(@, [kind |-> "close", code |-> "",
                                               session |-> sys.manager.state.id])]

MaxSessionCalls == 4

MaxNow == 2

\* One more call of a SessionManager method, awaited to its end.
SessionCall(op, arg, out) ==
    /\ Len(calls) < MaxSessionCalls
    /\ requests = <<>>
    /\ calls' = Append(calls, op)
    /\ storage' = out.sys.storage
    /\ manager' = [out.sys.manager EXCEPT
                      !.last = [op |-> op, arg |-> arg, threw |-> out.threw,
                                state |-> manager.state, mock |-> mock]]
    /\ mock' = out.sys.mock
    /\ ran' = out.sys.ran
    /\ UNCHANGED <<src, texts, report, tokVars, astVars, venvVars, taken, requests, now>>

\* init(sessionId); without an id, generateId() gives one no session has.
Init1(sessionId) == SessionCall("init", sessionId, Returned2(init(System, sessionId, "")))

Init0 ==
    \E generated \in SessionIds :
        /\ storage.sessions[generated] = NoSession
        /\ SessionCall("init", "", Returned2(init(System, "", generated)))

Exec(code) == SessionCall("exec", code, exec(System, code))

InstallPackage(name, version) ==
    SessionCall("installPackage", name, installPackage(System, name, version))

CreateSnapshot == SessionCall("createSnapshot", "", createSnapshot(System))

RestoreSnapshot(snapshotId) ==
    SessionCall("restoreSnapshot", snapshotId, restoreSnapshot(System, snapshotId))

Close == SessionCall("close", "", Returned2(close(System)))

\* Time passes between two calls.
Tick ==
    /\ now < MaxNow
    /\ requests = <<>>
    /\ now' = now + 1
    /\ UNCHANGED <<xformVars, tokVars, astVars, venvVars, mock, taken, storage, manager,
                   requests, ran>>

SessionCodes == {"x = 1"}

InitSessions ==
    /\ src = <<>>
    /\ calls = <<>>
    /\ texts = <<src>>
    /\ report = NoReport
    /\ TokIdle
    /\ AstIdle
    /\ VenvIdle
    /\ mock = NewBackend
    /\ taken = <<>>
    /\ storage = EmptyStorage
    /\ manager \in {NewManager(maxHistory) : maxHistory \in {0, 1, 100}}
    /\ requests = <<>>
    /\ ran = <<>>
    /\ now = 0

SessionsNext ==
    \/ \E sessionId \in SessionIds : Init1(sessionId)
    \/ Init0
    \/ \E code \in SessionCodes : Exec(code)
    \/ InstallPackage(<<"n","u","m","p","y">>, <<>>)
    \/ CreateSnapshot
    \/ \E snapshotId \in 1..(Len(storage.snapshots) + 1) : RestoreSnapshot(snapshotId)
    \/ Close
    \/ Tick

SpecSessions == InitSessions /\ [][SessionsNext]_vars

\* C24: once close() has persisted closed = true for a session id, no later
\* sequence of SessionManager calls, init with that id followed by exec in
\* particular, executes code in that session or persists a state with
\* closed = false under that id.
C24_CloseIsFinal ==
    \A i \in 1..Len(ran) :
        ran[i].kind = "close" =>
            /\ storage.sessions[ran[i].session].closed
            /\ \A j \in (i + 1)..Len(ran) :
                   ~(ran[j].kind = "exec" /\ ran[j].session = ran[i].session)

\* Every record of the history was made while the session id was current.
OwnRecords(history, id) == \A k \in 1..Len(history) : history[k].session = id

\* C26: after init creates or restores session B on a SessionManager that
\* served session A before, the history of B, what getHistory() returns and
\* what is persisted under history:B, has no execution record made while A
\* was the current session.
C26_HistoryIsOwn ==
    /\ manager.state # NoSession => OwnRecords(manager.history, manager.state.id)
    /\ \A id \in SessionIds :
           storage.histories[id].defined => OwnRecords(storage.histories[id].value, id)

\* C27: restoreSnapshot(snapshotId) restores only a snapshot of the current
\* session: for a snapshot whose recorded sessionId differs from the current
\* session's id the call is rejected and leaves the backend state and the
\* session's package list unchanged.
C27_RestoresOwnSnapshotsOnly ==
    ( /\ manager.last.op = "restoreSnapshot"
      /\ manager.last.arg \in 1..Len(storage.snapshots)
      /\ manager.last.state # NoSession
      /\ storage.snapshots[manager.last.arg].meta.sessionId # manager.last.state.id ) =>
        /\ manager.last.threw
        /\ mock = manager.last.mock
        /\ manager.state.packages = manager.last.state.packages

\* The executions the backend ran while the session id was current, in order.
ExecutionsOf(id) ==
    LET ns == {n \in 1..Len(ran) : ran[n].kind = "exec" /\ ran[n].session = id}
        nth(k) == CHOOSE n \in ns : Cardinality({m \in ns : m < n}) = k - 1
    IN  [k \in 1..Cardinality(ns) |-> nth(k)]

\* C28: after any sequence of successful exec calls the history holds at
\* most maxHistory records, and they are the most recent executions in the
\* order they ran.
C28_HistoryIsBounded ==
    (manager.last.op = "exec" /\ ~manager.last.threw) =>
        /\ Len(manager.history) <= manager.maxHistory
        /\ LET all == ExecutionsOf(manager.state.id)
               kept == [k \in 1..Len(manager.history) |-> manager.history[k].n]
           IN  /\ Len(kept) <= Len(all)
               /\ kept = SubSeq(all, Len(all) - Len(kept) + 1, Len(all))

(***************************************************************************)
(* do/index.ts: POST /sessions/:id/exec, two requests on the one           *)
(* SessionManager that getSessionManager() hands to every route.  A step   *)
(* is what a request runs between two awaits.                              *)
(***************************************************************************)

\* A request that has read its body: the session id of its URL, its code,
\* where it stands, and what it holds in locals.
Request(id, code) ==
    [id |-> id, code |-> code, pc |-> "init", existing |-> NoSession,
     historyData |-> Undefined, n |-> 0]

\* The request moves on, and the manager, the storage and the log of the
\* backend become those of sys.
RequestStep(r, moved, sys) ==
    /\ requests' = [requests EXCEPT ![r] = moved]
    /\ storage' = sys.storage
    /\ manager' = sys.manager
    /\ ran' = sys.ran
    /\ UNCHANGED <<xformVars, tokVars, astVars, venvVars, mock, taken, now>>

At(r, pc) == r \in 1..Len(requests) /\ requests[r].pc = pc

\* sessionManager.init(sessionId) up to its first await: storage.get of the state
GetSession(r) ==
    /\ At(r, "init")
    /\ RequestStep(r, [requests[r] EXCEPT !.pc = "existing",
                                          !.existing = storage.sessions[requests[r].id]],
                   System)

\* init, from existing to `await this.saveState()`: this.state is the
\* restored or the new state, and the put is issued.
RestoreOrCreate(r) ==
    /\ At(r, "existing")
    /\ IF Restorable(System, requests[r].existing)
       THEN RequestStep(r, [requests[r] EXCEPT !.pc = "restored"],
                        RestoreSession(System, requests[r].existing))
       ELSE RequestStep(r, [requests[r] EXCEPT !.pc = "return"],
                        CreateSession(System, requests[r].id))

\* init, restore branch: storage.get of the history
GetHistory(r) ==
    /\ At(r, "restored")
    /\ RequestStep(r, [requests[r] EXCEPT !.pc = "history",
                                          !.historyData = storage.histories[requests[r].id]],
                   System)

\* init, restore branch: `if (historyData) this.history = historyData`
SetHistory(r) ==
    /\ At(r, "history")
    /\ RequestStep(r, [requests[r] EXCEPT !.pc = "return"],
                   LoadHistory(System, requests[r].historyData))

\* The route after `await sessionManager.init(sessionId)`: the isActive()
\* check, and exec up to `await this.backend.exec(code)`.
CallExec(r) ==
    /\ At(r, "return")
    /\ IF ~isActive(System)
       THEN RequestStep(r, [requests[r] EXCEPT !.pc = "done"], System)
       ELSE RequestStep(r, [requests[r] EXCEPT !.pc = "executed", !.n = Len(ran) + 1],
                        BackendRuns(System, requests[r].code))

\* exec, from the result of the backend to `await this.saveState()`
RecordExecution(r) ==
    /\ At(r, "executed")
    /\ RequestStep(r, [requests[r] EXCEPT !.pc = "saved"],
                   saveState(Recorded(System, [code |-> requests[r].code,
                                               session |-> manager.state.id,
                                               n |-> requests[r].n])))

\* exec: `await this.saveHistory()`
SaveHistory(r) ==
    /\ At(r, "saved")
    /\ RequestStep(r, [requests[r] EXCEPT !.pc = "respond"], saveHistory(System))

\* exec returns the result and the route answers
Respond(r) ==
    /\ At(r, "respond")
    /\ RequestStep(r, [requests[r] EXCEPT !.pc = "done"], System)

\* What the storage holds for a session before the two requests: nothing,
\* an open session that ran nothing, or one with an empty history stored.
StoredSessions == {"none", "state", "history"}

StorageWith(stored) ==
    [EmptyStorage EXCEPT
        !.sessions = [id \in SessionIds |->
                         IF stored[id] = "none" THEN NoSession ELSE NewSessionState(id, 0)],
        !.histories = [id \in SessionIds |->
                          IF stored[id] = "history" THEN Defined(<<>>) ELSE Undefined]]

InitRequests ==
    /\ src = <<>>
    /\ calls = <<>>
    /\ texts = <<src>>
    /\ report = NoReport
    /\ TokIdle
    /\ AstIdle
    /\ VenvIdle
    /\ mock = NewBackend
    /\ taken = <<>>
    /\ storage \in {StorageWith(stored) : stored \in [SessionIds -> StoredSessions]}
    /\ manager = NewManager(100)
    /\ requests = <<Request("A", "a = 1"), Request("B", "b = 2")>>
    /\ ran = <<>>
    /\ now = 0

RequestsNext ==
    \/ \E r \in 1..Len(requests) : GetSession(r)
    \/ \E r \in 1..Len(requests) : RestoreOrCreate(r)
    \/ \E r \in 1..Len(requests) : GetHistory(r)
    \/ \E r \in 1..Len(requests) : SetHistory(r)
    \/ \E r \in 1..Len(requests) : CallExec(r)
    \/ \E r \in 1..Len(requests) : RecordExecution(r)
    \/ \E r \in 1..Len(requests) : SaveHistory(r)
    \/ \E r \in 1..Len(requests) : Respond(r)

SpecRequests == InitRequests /\ [][RequestsNext]_vars

\* The history stored for the session has a record of the code.
RecordedIn(id, code) ==
    /\ storage.histories[id].defined
    /\ \E k \in 1..Len(storage.histories[id].value) :
           storage.histories[id].value[k].code = code

\* C25: for any interleaving, at their await points, of two concurrent
\* POST /sessions/:id/exec requests that name different session ids, the
\* code of each request is counted in executionCount and recorded in the
\* history of the session its own URL names, and of no other session.
C25_RequestsKeepToTheirSession ==
    \A r \in 1..Len(requests) :
        /\ \A id \in SessionIds \ {requests[r].id} : ~RecordedIn(id, requests[r].code)
        /\ (\A q \in 1..Len(requests) : requests[q].pc = "done") =>
               /\ RecordedIn(requests[r].id, requests[r].code)
               /\ storage.sessions[requests[r].id] # NoSession
               /\ storage.sessions[requests[r].id].executionCount = 1
====
